---- MODULE Spec2Model ----
(***************************************************************************)
(* A model of the single-file AI agent (src/main.py): the AIAgent.chat     *)
(* request / response / tool-execution loop, the tool executor with its    *)
(* three file tools, and the filesystem the tools act on.                  *)
(*                                                                         *)
(* Conventions.                                                            *)
(*  - A Python str that the code inspects character by character (a file's *)
(*    content, a path, old_text / new_text) is a sequence of one-character *)
(*    strings; Str renders it as a TLA+ string.  Strings the code only     *)
(*    builds and passes on (tool results, return values) are TLA+ strings. *)
(*  - A Python call that may raise is an operator returning a record with  *)
(*    a field exc: "none" when it returns, else the exception's class.     *)
(*  - The model service is the environment: its responses and failures are *)
(*    chosen nondeterministically.  It issues call ids that are unique     *)
(*    within a conversation.                                               *)
(***************************************************************************)
EXTENDS Integers, Sequences, FiniteSets, TLC

VARIABLES
    input,            \* self.input: the conversation state (main.py:45)
    fs,               \* the filesystem the tools read and write
    pc,               \* where chat is: "idle", "request" (line 252), "tools" (line 267)
    function_calls,   \* chat's local: the function_call items of the response (line 256)
    function_results, \* chat's local: the results built so far (line 266)
    ret,              \* what the last chat call returned and through which return statement
    requests,         \* history: params["input"] of every request sent (line 252)
    outcomes,         \* history: per request, "ok" or "failed"
    chat_no,          \* history: number of chat calls made on the agent
    chat_log,         \* history of the current chat call (see ChatLog0)
    model,            \* self.model (main.py:42)
    tools,            \* self.tools (main.py:46, 55)
    sent,             \* history: params of every request sent (main.py:212-252)
    proc              \* the process running main(): see Proc0

vars ==
    <<input, fs, pc, function_calls, function_results, ret, requests, outcomes, chat_no, chat_log,
      model, tools, sent, proc>>

-----------------------------------------------------------------------------
(* Bounds *)

\* The conversation is cut off at this many items: no chat call starts and no
\* response is taken that would make self.input longer.
MaxInput == 6

\* The interactive loop calls input() at most this many times.
MaxLines == 3

\* The longest file read where the length of the result matters.
MaxFileLen == 489

-----------------------------------------------------------------------------
(* Text *)

RECURSIVE Str(_)
\* The Python str a sequence of characters stands for: the characters joined,
\* half by half.
Str(cs) ==
    IF cs = <<>> THEN ""
    ELSE IF Len(cs) = 1 THEN cs[1]
    ELSE Str(SubSeq(cs, 1, Len(cs) \div 2)) \o Str(SubSeq(cs, Len(cs) \div 2 + 1, Len(cs)))

\* A character no UTF-8 encoder accepts (a lone surrogate, which json.loads
\* does produce from an escape such as \ud800).
Surrogate == "\\ud800"

Encodable(cs) == \A i \in 1..Len(cs) : cs[i] # Surrogate

\* Python's truth value of a str or None.
Truthy(v) == v.py = "str" /\ v.s # <<>>

PyNone == [py |-> "None"]

PyStr(cs) == [py |-> "str", s |-> cs]

PyList == [py |-> "list"]

PyDict(m) == [py |-> "dict", m |-> m]

\* str(v) / the f-string rendering of a str or None.
Fmt(v) == IF v.py = "str" THEN Str(v.s) ELSE "None"

-----------------------------------------------------------------------------
(* json.loads on the lexed arguments string.  A token is {, }, [, ], :, a   *)
(* comma, null, or a string literal with its decoded characters.            *)

LBrace == [t |-> "{"]

RBrace == [t |-> "}"]

LBracket == [t |-> "["]

RBracket == [t |-> "]"]

Colon == [t |-> ":"]

Comma == [t |-> ","]

Null == [t |-> "null"]

Lit(cs) == [t |-> "string", s |-> cs]

IsScalarTok(tok) == tok.t \in {"null", "string"}

ScalarOf(tok) == IF tok.t = "null" THEN PyNone ELSE PyStr(tok.s)

JsonOk(v) == [exc |-> "none", val |-> v]

\* msg is str(e) of a failure at the first character; the position in the
\* message of a later failure is not modelled.
JsonError == [exc |-> "JSONDecodeError", msg |-> "Expecting value: line 1 column 1 (char 0)"]

RECURSIVE ParseMembers(_, _, _)
\* The members of an object from token i on, after "{" or ","; acc holds the
\* pairs read so far (a later duplicate key overwrites an earlier one).
ParseMembers(toks, i, acc) ==
    IF i + 2 > Len(toks) THEN JsonError
    ELSE IF toks[i].t # "string" \/ toks[i + 1] # Colon \/ ~IsScalarTok(toks[i + 2])
    THEN JsonError
    ELSE LET key == Str(toks[i].s)
             acc2 == [k \in DOMAIN acc \cup {key} |->
                        IF k = key THEN ScalarOf(toks[i + 2]) ELSE acc[k]]
         IN  IF i + 3 > Len(toks) THEN JsonError
             ELSE IF toks[i + 3] = RBrace
             THEN IF i + 3 = Len(toks) THEN JsonOk(PyDict(acc2)) ELSE JsonError
             ELSE IF toks[i + 3] = Comma THEN ParseMembers(toks, i + 4, acc2)
             ELSE JsonError

\* json.loads(s): the Python value, or JSONDecodeError.
JsonLoads(toks) ==
    IF toks = <<>> THEN JsonError
    ELSE IF Len(toks) = 1 /\ IsScalarTok(toks[1]) THEN JsonOk(ScalarOf(toks[1]))
    ELSE IF toks = <<LBracket, RBracket>> THEN JsonOk(PyList)
    ELSE IF toks = <<LBrace, RBrace>> THEN JsonOk(PyDict(<<>>))
    ELSE IF toks[1] = LBrace THEN ParseMembers(toks, 2, <<>>)
    ELSE JsonError

-----------------------------------------------------------------------------
(* Paths.  A path is a str; the filesystem is keyed by the sequence of names *)
(* a path resolves to from the working directory (<<>> is the working        *)
(* directory itself).  Paths are relative, without "..", symbolic links or a *)
(* trailing slash.                                                           *)

RECURSIVE SplitFrom(_, _, _)
\* cs split at "/" from position i on, cur being the name read so far.
SplitFrom(cs, i, cur) ==
    IF i > Len(cs) THEN <<cur>>
    ELSE IF cs[i] = "/" THEN <<cur>> \o SplitFrom(cs, i + 1, <<>>)
    ELSE SplitFrom(cs, i + 1, Append(cur, cs[i]))

\* The names the kernel walks for path cs: empty names and "." are skipped.
Components(cs) ==
    LET parts == SplitFrom(cs, 1, <<>>)
    IN  SelectSeq(parts, LAMBDA n : n # <<>> /\ n # <<".">>)

RECURSIVE LastSlash(_, _)
\* The position of the last "/" in cs[1..i], 0 when there is none.
LastSlash(cs, i) == IF i = 0 THEN 0 ELSE IF cs[i] = "/" THEN i ELSE LastSlash(cs, i - 1)

RECURSIVE RStripSlash(_)
RStripSlash(cs) ==
    IF cs # <<>> /\ cs[Len(cs)] = "/" THEN RStripSlash(SubSeq(cs, 1, Len(cs) - 1)) ELSE cs

\* os.path.dirname (posixpath): the head up to the last slash, its trailing
\* slashes stripped unless it is all slashes.
Dirname(cs) ==
    LET head == SubSeq(cs, 1, LastSlash(cs, Len(cs)))
    IN  IF head # <<>> /\ RStripSlash(head) # <<>> THEN RStripSlash(head) ELSE head

\* os.path.join(path, item) for a relative item.
PathJoin(cs, item) ==
    IF cs = <<>> \/ cs[Len(cs)] = "/" THEN cs \o item ELSE cs \o <<"/">> \o item

-----------------------------------------------------------------------------
(* The filesystem: a function from keys to nodes.  perm is "rw", "ro" (no    *)
(* write; for a directory: no entry can be created in it) or "none" (no read *)
(* either; for a directory: it can be neither listed nor searched).  enc is  *)
(* "bad" for a file whose bytes are not valid UTF-8.                         *)

File(cs) == [kind |-> "file", content |-> cs, perm |-> "rw", enc |-> "utf8"]

Dir == [kind |-> "dir", content |-> <<>>, perm |-> "rw", enc |-> "utf8"]

Parent(key) == SubSeq(key, 1, Len(key) - 1)

RECURSIVE Walk(_, _, _)
\* The kernel's walk to key: every proper prefix must be a searchable directory.
Walk(f, key, i) ==
    IF i >= Len(key) THEN (IF key \in DOMAIN f THEN "none" ELSE "ENOENT")
    ELSE LET p == SubSeq(key, 1, i)
         IN  IF p \notin DOMAIN f THEN "ENOENT"
             ELSE IF f[p].kind # "dir" THEN "ENOTDIR"
             ELSE IF f[p].perm = "none" THEN "EACCES"
             ELSE Walk(f, key, i + 1)

\* os.stat(path): the errno ("none" on success).
Stat(f, cs) == IF cs = <<>> THEN "ENOENT" ELSE Walk(f, Components(cs), 0)

ErrnoExc(e) ==
    CASE e = "ENOENT" -> "FileNotFoundError"
      [] e = "ENOTDIR" -> "NotADirectoryError"
      [] e = "EACCES" -> "PermissionError"
      [] e = "EISDIR" -> "IsADirectoryError"
      [] e = "EEXIST" -> "FileExistsError"

ErrnoText(e) ==
    CASE e = "ENOENT" -> "[Errno 2] No such file or directory: "
      [] e = "ENOTDIR" -> "[Errno 20] Not a directory: "
      [] e = "EACCES" -> "[Errno 13] Permission denied: "
      [] e = "EISDIR" -> "[Errno 21] Is a directory: "
      [] e = "EEXIST" -> "[Errno 17] File exists: "

\* The OSError the interpreter raises for errno e on path cs; msg is str(e).
OSError(e, cs) == [exc |-> ErrnoExc(e), msg |-> ErrnoText(e) \o "'" \o Str(cs) \o "'"]

TypeError(m) == [exc |-> "TypeError", msg |-> m]

Ok(v) == [exc |-> "none", val |-> v]

\* os.path.exists(path), Python 3.12: False on OSError; a path that is not a
\* str makes os.stat raise TypeError, which exists does not catch.
Exists(f, path) ==
    IF path.py # "str"
    THEN TypeError("stat: path should be string, bytes, os.PathLike or integer, not NoneType")
    ELSE Ok(Stat(f, path.s) = "none")

\* os.path.isdir(path) for a str.
IsDir(f, cs) == Stat(f, cs) = "none" /\ f[Components(cs)].kind = "dir"

\* os.listdir(path) for a str: the set of names in the directory.
ListDir(f, cs) ==
    LET e == Stat(f, cs)
        key == Components(cs)
    IN  IF e # "none" THEN OSError(e, cs)
        ELSE IF f[key].kind # "dir" THEN OSError("ENOTDIR", cs)
        ELSE IF f[key].perm = "none" THEN OSError("EACCES", cs)
        ELSE Ok({k[Len(k)] : k \in {k2 \in DOMAIN f : k2 # <<>> /\ Parent(k2) = key}})

RECURSIVE UniversalNewlines(_)
\* What a text-mode read (newline=None) makes of the decoded characters: each
\* "\r\n" and each lone "\r" becomes "\n".
UniversalNewlines(cs) ==
    IF cs = <<>> THEN <<>>
    ELSE IF Len(cs) = 1 THEN <<IF cs[1] = "\r" THEN "\n" ELSE cs[1]>>
    ELSE IF cs = <<"\r", "\n">> THEN <<"\n">>
    ELSE \* translated half by half, the cut never between a "\r" and its "\n"
         LET m == Len(cs) \div 2
             h == IF cs[m] = "\r" /\ cs[m + 1] = "\n" THEN m + 1 ELSE m
         IN  UniversalNewlines(SubSeq(cs, 1, h)) \o UniversalNewlines(SubSeq(cs, h + 1, Len(cs)))

\* with open(path, "r", encoding="utf-8") as f: f.read()
OpenRead(f, path) ==
    IF path.py # "str"
    THEN TypeError("expected str, bytes or os.PathLike object, not NoneType")
    ELSE LET cs == path.s
             e == Stat(f, cs)
             key == Components(cs)
         IN  IF e # "none" THEN OSError(e, cs)
             ELSE IF f[key].kind = "dir" THEN OSError("EISDIR", cs)
             ELSE IF f[key].perm = "none" THEN OSError("EACCES", cs)
             ELSE IF f[key].enc = "bad"
             THEN [exc |-> "UnicodeDecodeError",
                   msg |-> "'utf-8' codec can't decode byte 0xff in position 0: invalid start byte"]
             ELSE Ok(UniversalNewlines(f[key].content))

\* f with the node at key replaced or added.
Put(f, key, node) == [k \in DOMAIN f \cup {key} |-> IF k = key THEN node ELSE f[k]]

\* with open(path, "w", encoding="utf-8") as f: f.write(text).  open creates
\* or truncates the file before anything is written; a write that raises
\* leaves it empty.  On a POSIX system (os.linesep is "\n") the characters are
\* written as they are.  The result carries the filesystem afterwards.
OpenWrite(f, path, text) ==
    IF path.py # "str"
    THEN TypeError("expected str, bytes or os.PathLike object, not NoneType") @@ [fs |-> f]
    ELSE LET cs == path.s
             key == Components(cs)
             e == IF cs = <<>> THEN "ENOENT"
                  ELSE IF key = <<>> THEN "EISDIR"
                  ELSE LET pe == Walk(f, Parent(key), 0)
                       IN  IF pe # "none" THEN pe
                           ELSE IF f[Parent(key)].kind # "dir" THEN "ENOTDIR"
                           ELSE IF f[Parent(key)].perm = "none" THEN "EACCES"
                           ELSE IF key \in DOMAIN f
                           THEN (IF f[key].kind = "dir" THEN "EISDIR"
                                 ELSE IF f[key].perm # "rw" THEN "EACCES" ELSE "none")
                           ELSE (IF f[Parent(key)].perm # "rw" THEN "EACCES" ELSE "none")
         IN  IF e # "none" THEN OSError(e, cs) @@ [fs |-> f]
             ELSE IF text.py # "str"
             THEN TypeError("write() argument must be str, not None")
                    @@ [fs |-> Put(f, key, File(<<>>))]
             ELSE IF ~Encodable(text.s)
             THEN [exc |-> "UnicodeEncodeError",
                   msg |-> "'utf-8' codec can't encode character '\\ud800' in position 0: surrogates not allowed",
                   fs |-> Put(f, key, File(<<>>))]
             ELSE [exc |-> "none", fs |-> Put(f, key, File(text.s))]

RECURSIVE MakeDirsFrom(_, _, _, _)
\* os.makedirs(cs, exist_ok=True), the names key[i..] still to be made.  The
\* directories made before a failure stay.
MakeDirsFrom(f, cs, key, i) ==
    IF i > Len(key) THEN [exc |-> "none", fs |-> f]
    ELSE LET p == SubSeq(key, 1, i)
             par == Parent(p)
         IN  IF p \in DOMAIN f
             THEN IF f[p].kind = "dir"
                  THEN (IF i < Len(key) /\ f[p].perm = "none"
                        THEN OSError("EACCES", cs) @@ [fs |-> f]
                        ELSE MakeDirsFrom(f, cs, key, i + 1))
                  ELSE OSError(IF i = Len(key) THEN "EEXIST" ELSE "ENOTDIR", cs) @@ [fs |-> f]
             ELSE IF f[par].perm # "rw" THEN OSError("EACCES", cs) @@ [fs |-> f]
             ELSE MakeDirsFrom(Put(f, p, Dir), cs, key, i + 1)

MakeDirs(f, cs) == MakeDirsFrom(f, cs, Components(cs), 1)

-----------------------------------------------------------------------------
(* str operations the tools use *)

\* cs[i..] starts with pat.
StartsAt(cs, i, pat) == i + Len(pat) - 1 <= Len(cs) /\ SubSeq(cs, i, i + Len(pat) - 1) = pat

\* pat in cs, for a pat that is not empty.
Contains(cs, pat) == \E i \in 1..Len(cs) : StartsAt(cs, i, pat)

RECURSIVE ReplaceFrom(_, _, _, _)
\* cs.replace(old, new) from position i on: left to right, occurrences that do
\* not overlap; old is not empty.
ReplaceFrom(cs, i, old, new) ==
    IF i > Len(cs) THEN <<>>
    ELSE IF StartsAt(cs, i, old) THEN new \o ReplaceFrom(cs, i + Len(old), old, new)
    ELSE <<cs[i]>> \o ReplaceFrom(cs, i + 1, old, new)

Replace(cs, old, new) == ReplaceFrom(cs, 1, old, new)

\* The characters names are made of, in the order of their code points.
CodePointOrder ==
    << ".", "/", "0", "1", "A", "B", "Z", "_", "a", "b", "c", "d", "e",
       "f", "g", "h", "i", "j", "k", "l", "m", "n", "o", "p", "q", "r",
       "s", "t", "u", "v", "w", "x", "y", "z" >>

\* The rank of ord(c) among them: str comparison needs only the order.
Ord(c) == CHOOSE i \in 1..Len(CodePointOrder) : CodePointOrder[i] = c

RECURSIVE StrGreater(_, _)
\* Mutant: the comparison is reversed.
StrGreater(a, b) ==
    IF a = <<>> THEN FALSE
    ELSE IF b = <<>> THEN TRUE
    ELSE IF Ord(Head(a)) # Ord(Head(b)) THEN Ord(Head(a)) > Ord(Head(b))
    ELSE StrGreater(Tail(a), Tail(b))

RECURSIVE StrLess(_, _)
\* a < b on str: by code point, a proper prefix first.
StrLess(a, b) ==
    IF b = <<>> THEN FALSE
    ELSE IF a = <<>> THEN TRUE
    ELSE IF Ord(Head(a)) # Ord(Head(b)) THEN Ord(Head(a)) < Ord(Head(b))
    ELSE StrLess(Tail(a), Tail(b))

RECURSIVE Sorted(_)
\* sorted(names) of a set of distinct names.
Sorted(names) ==
    IF names = {} THEN <<>>
    ELSE LET least == CHOOSE n \in names : \A m \in names \ {n} : StrLess(n, m)
         IN  <<least>> \o Sorted(names \ {least})

RECURSIVE JoinLines(_)
\* "\n".join(items)
JoinLines(items) ==
    IF items = <<>> THEN ""
    ELSE IF Len(items) = 1 THEN items[1]
    ELSE items[1] \o "\n" \o JoinLines(Tail(items))

-----------------------------------------------------------------------------
(* The tools.  Each returns [result |-> the str returned, fs |-> the        *)
(* filesystem afterwards].                                                   *)

\* Mutant: a file that is missing is created empty before the failure is
\* reported.
ReadFileCreating(f, path) ==
    LET r == OpenRead(f, path)
    IN  IF r.exc = "FileNotFoundError"
        THEN [fs |-> Put(f, Components(path.s), File(<<>>)),
              result |-> "File not found: " \o Fmt(path)]
        ELSE [fs |-> f,
              result |->
                 IF r.exc = "none" THEN "File contents of " \o Fmt(path) \o ":\n" \o Str(r.val)
                 ELSE "Error reading file: " \o r.msg]

\* AIAgent._read_file
ReadFile(f, path) ==
    LET r == OpenRead(f, path)
    IN  [fs |-> f,
         result |->
            IF r.exc = "none" THEN "File contents of " \o Fmt(path) \o ":\n" \o Str(r.val)
            ELSE IF r.exc = "FileNotFoundError" THEN "File not found: " \o Fmt(path)
            ELSE "Error reading file: " \o r.msg]

\* Mutant: the isdir test is left out; every entry is taken for a file.
ListLineAllFiles(f, cs, item) == "[FILE] " \o Str(item)

\* The listing line of one entry (main.py:153-157).
ListLine(f, cs, item) ==
    IF IsDir(f, PathJoin(cs, item)) THEN "[DIR]  " \o Str(item) \o "/"
    ELSE "[FILE] " \o Str(item)

\* Mutant: every call leaves a file z of its own in the working directory.
ListFilesLeavingFile(f, path) ==
    LET ex == Exists(f, path)
    IN  [fs |-> Put(f, <<<<"z">>>>, File(<<>>)),
         result |->
            IF ex.exc # "none" THEN "Error listing files: " \o ex.msg
            ELSE IF ~ex.val THEN "Path not found: " \o Fmt(path)
            ELSE LET ls == ListDir(f, path.s)
                 IN  IF ls.exc # "none" THEN "Error listing files: " \o ls.msg
                     ELSE LET names == Sorted(ls.val)
                              items == [i \in 1..Len(names) |-> ListLine(f, path.s, names[i])]
                          IN  IF items = <<>> THEN "Empty directory: " \o Fmt(path)
                              ELSE "Contents of " \o Fmt(path) \o ":\n" \o JoinLines(items)]

\* AIAgent._list_files
ListFiles(f, path) ==
    LET ex == Exists(f, path)
    IN  [fs |-> f,
         result |->
            IF ex.exc # "none" THEN "Error listing files: " \o ex.msg
            ELSE IF ~ex.val THEN "Path not found: " \o Fmt(path)
            ELSE LET ls == ListDir(f, path.s)
                 IN  IF ls.exc # "none" THEN "Error listing files: " \o ls.msg
                     ELSE LET names == Sorted(ls.val)
                              items == [i \in 1..Len(names) |-> ListLine(f, path.s, names[i])]
                          IN  IF items = <<>> THEN "Empty directory: " \o Fmt(path)
                              ELSE "Contents of " \o Fmt(path) \o ":\n" \o JoinLines(items)]

EditError(f, e) == [fs |-> f, result |-> "Error editing file: " \o e.msg]

\* The replace branch of AIAgent._edit_file (main.py:169-180).
EditReplace(f, path, old_text, new_text) ==
    LET r == OpenRead(f, path)
    IN  IF r.exc # "none" THEN EditError(f, r)
        ELSE IF ~Contains(r.val, old_text.s)
        THEN [fs |-> f, result |-> "Text not found in file: " \o Fmt(old_text)]
        ELSE IF new_text.py # "str"
        THEN EditError(f, TypeError("replace() argument 2 must be str, not None"))
        ELSE LET w == OpenWrite(f, path, PyStr(Replace(r.val, old_text.s, new_text.s)))
             IN  IF w.exc # "none" THEN EditError(w.fs, w)
                 ELSE [fs |-> w.fs, result |-> "Successfully edited " \o Fmt(path)]

\* The create branch of AIAgent._edit_file (main.py:182-190).
EditCreate(f, path, new_text) ==
    LET dir_name == Dirname(path.s)
        m == IF dir_name # <<>> THEN MakeDirs(f, dir_name) ELSE [exc |-> "none", fs |-> f]
    IN  IF m.exc # "none" THEN EditError(m.fs, m)
        ELSE LET w == OpenWrite(m.fs, path, new_text)
             IN  IF w.exc # "none" THEN EditError(w.fs, w)
                 ELSE [fs |-> w.fs, result |-> "Successfully created " \o Fmt(path)]

\* Mutant: old_text is ignored; the file is always written anew.
EditFileAlwaysCreate(f, path, old_text, new_text) ==
    LET ex == Exists(f, path)
    IN  IF ex.exc # "none" THEN EditError(f, ex) ELSE EditCreate(f, path, new_text)

\* AIAgent._edit_file
EditFile(f, path, old_text, new_text) ==
    LET ex == Exists(f, path)
    IN  IF ex.exc # "none" THEN EditError(f, ex)
        ELSE IF ex.val /\ Truthy(old_text) THEN EditReplace(f, path, old_text, new_text)
        ELSE EditCreate(f, path, new_text)

\* tool_input[key]
GetItem(tool_input, key) ==
    IF tool_input.py = "dict"
    THEN (IF key \in DOMAIN tool_input.m THEN Ok(tool_input.m[key])
          ELSE [exc |-> "KeyError", msg |-> "'" \o key \o "'"])
    ELSE IF tool_input.py = "list"
    THEN TypeError("list indices must be integers or slices, not str")
    ELSE IF tool_input.py = "str"
    THEN TypeError("string indices must be integers, not 'str'")
    ELSE TypeError("'NoneType' object is not subscriptable")

\* tool_input.get(key, default) of a dict
DictGet(tool_input, key, default) ==
    IF key \in DOMAIN tool_input.m THEN tool_input.m[key] ELSE default

\* The names _execute_tool dispatches on (main.py:120-124).
ToolNames == {"read_file", "list_files", "edit_file"}

\* The try block of AIAgent._execute_tool (main.py:120-131): what it returns,
\* or the exception that leaves it.
Dispatch(f, tool_name, tool_input) ==
    IF tool_name \in ToolNames
    THEN LET p == GetItem(tool_input, "path")
         IN  IF p.exc # "none" THEN p @@ [fs |-> f]
             ELSE IF tool_name = "read_file" THEN ReadFile(f, p.val) @@ [exc |-> "none"]
             ELSE IF tool_name = "list_files"
             THEN ListFiles(f, IF Truthy(p.val) THEN p.val ELSE PyStr(<<".">>)) @@ [exc |-> "none"]
             ELSE LET n == GetItem(tool_input, "new_text")
                  IN  IF n.exc # "none" THEN n @@ [fs |-> f]
                      ELSE EditFile(f, p.val, DictGet(tool_input, "old_text", PyStr(<<>>)), n.val)
                             @@ [exc |-> "none"]
    ELSE [exc |-> "none", fs |-> f, result |-> "Unknown tool: " \o tool_name]

\* AIAgent._execute_tool: the try block, and the handler of main.py:132-134.
ExecuteTool(f, tool_name, tool_input) ==
    LET d == Dispatch(f, tool_name, tool_input)
    IN  IF d.exc = "none" THEN d
        ELSE [exc |-> "none", fs |-> d.fs,
              result |-> "Error executing " \o tool_name \o ": " \o d.msg]

-----------------------------------------------------------------------------
(* The agent: its model, its tool declarations and the parameters of a      *)
(* request.  A dict with str keys is a function on its keys.                *)

\* The default of the model parameter of AIAgent.__init__ (main.py:40) and of
\* the --model option (main.py:296).
DefaultModel == "gpt-4o-mini"

\* reasoning_models (main.py:51)
reasoning_models == <<"gpt-5-mini", "gpt-5", "gpt-5-nano", "o3-mini", "o4-mini", "o3", "o4">>

\* Mutant: no model is taken for a reasoning model.
NeverReasoningModel(m) == FALSE

\* AIAgent._is_reasoning_model: self.model in reasoning_models
IsReasoningModel(m) == \E i \in 1..Len(reasoning_models) : reasoning_models[i] = m

\* Tool(type="function", name=..., description=..., parameters=..., strict=True)
Tool(name, description, parameters) ==
    [type |-> "function", name |-> name, description |-> description,
     parameters |-> parameters, strict |-> TRUE]

\* The parameters schema of a tool: an object with the given properties, all
\* of them required.
Schema(properties, required) ==
    [type |-> "object", properties |-> properties, required |-> required,
     additionalProperties |-> FALSE]

\* What AIAgent._setup_tools assigns to self.tools (main.py:55-115).
SetupTools ==
    << Tool("read_file", "Read the contents of a file at the specified path",
            Schema([path |-> [type |-> "string",
                              description |-> "The path to the file to read"]],
                   <<"path">>)),
       Tool("list_files", "List all files and directories in the specified path",
            Schema([path |-> [type |-> <<"string", "null">>,
                              description |-> "The directory path to list (defaults to current directory, use . for current directory)"]],
                   <<"path">>)),
       Tool("edit_file",
            "Edit a file by replacing old_text with new_text. Creates the file if it doesn't exist.",
            Schema([path |-> [type |-> "string",
                              description |-> "The path to the file to edit"],
                    old_text |-> [type |-> <<"string", "null">>,
                                  description |-> "The text to search for and replace (leave empty to create new file)"],
                    new_text |-> [type |-> "string",
                                  description |-> "The text to replace old_text with"]],
                   <<"path", "old_text", "new_text">>)) >>

\* Mutant: only the first declaration is sent.
ToolSchemasFirstOnly(ts) ==
    [i \in 1..(IF ts = <<>> THEN 0 ELSE 1) |->
        [type |-> ts[i].type, name |-> ts[i].name, description |-> ts[i].description,
         parameters |-> ts[i].parameters, strict |-> ts[i].strict]]

\* tool_schemas (main.py:198-207): one dict per declaration, in their order.
\* chat builds it before its loop; self.tools is assigned nowhere but in the
\* constructor, so the list is the same at every request.
ToolSchemas(ts) ==
    [i \in 1..Len(ts) |->
        [type |-> ts[i].type, name |-> ts[i].name, description |-> ts[i].description,
         parameters |-> ts[i].parameters, strict |-> ts[i].strict]]

\* The instructions of every request (main.py:214).
Instructions ==
    "you are a helpful coding assistant operating in a terminal environment. Output only plain text without markdown formatting, as your responses appear directly in the terminal. Be concise but thorough, providing clear and practical advice with a friendly tone. Don't use any asterisk characters in your responses."

Digits == <<"0", "1", "2", "3", "4", "5", "6", "7", "8", "9">>

RECURSIVE DecimalStr(_)
\* str(n) of a natural number.
DecimalStr(n) ==
    IF n < 10 THEN Digits[n + 1] ELSE DecimalStr(n \div 10) \o Digits[(n % 10) + 1]

\* d.pop(key, None)
Pop(d, key) == [k \in DOMAIN d \ {key} |-> d[k]]

\* d[key] = value
SetItem(d, key, value) == [k \in DOMAIN d \cup {key} |-> IF k = key THEN value ELSE d[k]]

\* params as first written (main.py:212-239).  The floats 0.01 and 0.95 are
\* given by their literals.
BaseParams(m, inp, tool_schemas) ==
    [input |-> inp,
     instructions |-> Instructions,
     max_output_tokens |-> PyNone,
     max_tool_calls |-> PyNone,
     metadata |->
        [conversation_turn |->
            DecimalStr(Len(SelectSeq(inp, LAMBDA msg : "role" \in DOMAIN msg /\ msg.role = "user"))),
         environment |-> "development",
         features |-> "file_ops,chat,tools",
         project_version |-> "0.0.1",
         session_id |-> "sid-1234567890",
         user_id |-> "uid-1234567890"],
     model |-> m,
     parallel_tool_calls |-> TRUE,
     store |-> FALSE,
     stream |-> FALSE,
     temperature |-> "0.01",
     text |-> [format |-> [type |-> "text"], verbosity |-> "medium"],
     tool_choice |-> "auto",
     tools |-> tool_schemas,
     top_p |-> "0.95"]

\* params as passed to client.responses.create (main.py:212-247).
Params(m, inp, tool_schemas) ==
    LET base == BaseParams(m, inp, tool_schemas)
    IN  IF IsReasoningModel(m)
        THEN Pop(Pop(SetItem(SetItem(base, "reasoning", [effort |-> "medium"]),
                             "include", <<"reasoning.encrypted_content">>),
                     "temperature"),
                 "top_p")
        ELSE base

-----------------------------------------------------------------------------
(* Conversation items, as the dicts self.input holds *)

\* The user turn chat appends (main.py:196).
User(text) == [role |-> "user", content |-> <<[type |-> "input_text", text |-> text]>>]

\* item.to_dict() of an output item of type message.
Message(text) == [type |-> "message", role |-> "assistant", text |-> text]

\* item.to_dict() of an output item of type function_call.
FunctionCall(call_id, name, arguments) ==
    [type |-> "function_call", call_id |-> call_id, name |-> name, arguments |-> arguments]

\* Mutant: the tool result is given an id of its own.
FunctionCallOutputFreshId(call_id, output) ==
    [type |-> "function_call_output", call_id |-> call_id + 1, output |-> output]

\* The tool result chat builds (main.py:273-277).
FunctionCallOutput(call_id, output) ==
    [type |-> "function_call_output", call_id |-> call_id, output |-> output]

\* item.type == "function_call" (main.py:256); a user turn has no type.
IsFunctionCall(item) == "type" \in DOMAIN item /\ item.type = "function_call"

IsOutput(item) == "type" \in DOMAIN item /\ item.type = "function_call_output"

IsMessage(item) == "type" \in DOMAIN item /\ item.type = "message"

\* msg.get("role") == "user" (main.py:218)
IsUser(item) == "role" \in DOMAIN item /\ item.role = "user"

NumCalls(items) == Len(SelectSeq(items, IsFunctionCall))

RECURSIVE OutputText(_)
\* response.output_text: the text of the message items, concatenated ("" when
\* there is none).
OutputText(items) ==
    IF items = <<>> THEN ""
    ELSE (IF IsMessage(Head(items)) THEN Head(items).text ELSE "") \o OutputText(Tail(items))

-----------------------------------------------------------------------------
(* The environment: what the user types and what the model service answers *)

UserInputs == {"hello", "next"}

\* str(e) of the exception a failed service call raises.
ServiceErrors == {"Connection error."}

\* The arguments attribute of a function call: None, or the (lexed) str.
NoArguments == [present |-> FALSE, toks |-> <<>>]

Arguments(toks) == [present |-> TRUE, toks |-> toks]

Member(key, tok) == <<Lit(key), Colon, tok>>

\* {"path": "a", "old_text": null, "new_text": "x"}
CreateArgs ==
    <<LBrace>> \o Member(<<"p", "a", "t", "h">>, Lit(<<"a">>)) \o <<Comma>>
      \o Member(<<"o", "l", "d", "_", "t", "e", "x", "t">>, Null) \o <<Comma>>
      \o Member(<<"n", "e", "w", "_", "t", "e", "x", "t">>, Lit(<<"x">>)) \o <<RBrace>>

\* {"path": "a"}
ReadArgs == <<LBrace>> \o Member(<<"p", "a", "t", "h">>, Lit(<<"a">>)) \o <<RBrace>>

\* The output items the service composes its responses of; a function call
\* gets its call_id when the response is made.
OutputItems ==
    { Message("ok"),
      FunctionCall(0, "edit_file", Arguments(CreateArgs)),
      FunctionCall(0, "read_file", Arguments(ReadArgs)),
      FunctionCall(0, "list_files", NoArguments),
      FunctionCall(0, "read_file", Arguments(<<>>)),
      FunctionCall(0, "foo", Arguments(<<LBrace, RBrace>>)),
      FunctionCall(0, "foo", Arguments(<<RBrace>>)) }

\* The outputs of at most room items, tool results to come included.
ServiceOutputs(room) ==
    {o \in UNION {[1..n -> OutputItems] : n \in 0..room} : Len(o) + NumCalls(o) <= room}

RECURSIVE WithCallIds(_, _)
\* The output with call ids n + 1, n + 2, ... given to its function calls.
WithCallIds(out, n) ==
    IF out = <<>> THEN <<>>
    ELSE IF IsFunctionCall(Head(out))
    THEN <<[Head(out) EXCEPT !.call_id = n + 1]>> \o WithCallIds(Tail(out), n + 1)
    ELSE <<Head(out)>> \o WithCallIds(Tail(out), n)

-----------------------------------------------------------------------------
(* State *)

\* The working directory at the start: a file b holding "y".
Fs0 == (<<>> :> Dir) @@ (<<<<"b">>>> :> File(<<"y">>))

\* The history kept of one chat call.
ChatLog0 ==
    [start |-> <<>>,       \* self.input when chat was called
     user_input |-> "",    \* its argument
     responses |-> <<>>,   \* response.output of each response received
     svc_calls |-> 0,      \* calls of client.responses.create
     tool_execs |-> 0,     \* calls of _execute_tool
     executed |-> <<>>,    \* per call of _execute_tool: call_id and result
     batch_fs |-> Fs0,     \* the filesystem when the current batch started
     start_fs |-> Fs0,     \* the filesystem when chat was called
     events |-> <<>>,      \* what client.responses.create did, call by call
     logged |-> <<>>]      \* the "Tool result" records written to agent.log

\* client.responses.create returned a response with this output.
CreateReturned(output) == [kind |-> "return", output |-> output]

\* client.responses.create raised an exception with this message.
CreateRaised(err) == [kind |-> "raise", msg |-> err]

NoReturn == [via |-> "none", value |-> "", raised_at |-> "none"]

\* The process running main() (main.py:287-345).
Proc0 ==
    [pc |-> "start",      \* "start", "prompt" (line 321), "chat" (line 333), "exited"
     api_key |-> PyNone,  \* args.api_key
     env_key |-> PyNone,  \* os.environ.get("OPENAI_API_KEY")
     model_arg |-> DefaultModel,  \* args.model
     agent |-> FALSE,     \* agent has been constructed (line 310)
     stdout |-> <<>>,     \* what has been written to standard output
     status |-> -1,       \* the exit status, once exited; -1 while running
     lines |-> 0,         \* history: calls of input()
     event |-> "none",    \* history: what the loop met last: "line", "eof",
                          \* "interrupt", "response", "encode_error"
     line |-> <<>>]       \* history: the last line input() returned

\* The agent is used without main(): constructed as AIAgent(api_key).
NoProc == [Proc0 EXCEPT !.pc = "none", !.agent = TRUE]

\* return response.output_text (main.py:261)
Done(text) == [via |-> "done", value |-> text, raised_at |-> "none"]

\* return f"Error: {str(e)}" (main.py:283-285); raised_at is the call that raised.
Caught(e, where) == [via |-> "except", value |-> "Error: " \o e.msg, raised_at |-> where]

TypeOK ==
    /\ pc \in {"idle", "request", "tools"}
    /\ Len(input) <= MaxInput
    /\ Len(requests) = Len(outcomes)
    /\ chat_no \in Nat
    /\ ret.via \in {"none", "done", "except"}
    /\ Len(function_results) <= Len(function_calls)

Init ==
    /\ input = <<>>
    /\ fs = Fs0
    /\ pc = "idle"
    /\ function_calls = <<>>
    /\ function_results = <<>>
    /\ ret = NoReturn
    /\ requests = <<>>
    /\ outcomes = <<>>
    /\ chat_no = 0
    /\ chat_log = ChatLog0
    /\ model = DefaultModel
    /\ tools = SetupTools
    /\ sent = <<>>
    /\ proc = NoProc

-----------------------------------------------------------------------------
(* AIAgent.chat *)

\* Mutant: the user turn of a call that failed at once is replaced by the
\* next call's.
AppendUserOverFailed(inp, user_input) ==
    IF inp # <<>> /\ IsUser(inp[Len(inp)])
    THEN SubSeq(inp, 1, Len(inp) - 1) \o <<User(user_input)>>
    ELSE Append(inp, User(user_input))

\* Mutant: the user turn is numbered with a counter kept across chat calls.
AppendUserNumbered(inp, user_input) == Append(inp, User(user_input \o DecimalStr(chat_no)))

\* self.input.append({"role": "user", ...}) (main.py:196)
AppendUser(inp, user_input) == Append(inp, User(user_input))

\* Mutant: only the function calls of the output are kept.
ExtendWithCallsOnly(inp, output) == inp \o SelectSeq(output, IsFunctionCall)

\* self.input.extend([item.to_dict() for item in response.output]) (main.py:254)
ExtendWithOutput(inp, output) == inp \o output

\* Mutant: the results take the place of the items before them.
ReplaceWithResults(inp, results) == SubSeq(inp, 1, Len(inp) - Len(results)) \o results

\* Mutant: only the result of the first call of the batch is appended.
ExtendWithFirstResult(inp, results) == Append(inp, results[1])

\* self.input.extend(function_results) (main.py:280-281)
ExtendWithResults(inp, results) == inp \o results

\* Mutant: the else branch is always taken.
ResponseTextEmpty(output) == ""

\* response.output_text if hasattr(response, "output_text") else "" (main.py:261)
ResponseText(output) == OutputText(output)

\* function_call.arguments or "{}" (main.py:268)
ArgumentsOrEmpty(arguments) ==
    IF ~arguments.present \/ arguments.toks = <<>> THEN <<LBrace, RBrace>> ELSE arguments.toks

\* The number of characters of a result that the log record keeps.
LogLimit == 500

\* text[:n]
Slice(text, n) == SubSeq(text, 1, IF Len(text) < n THEN Len(text) ELSE n)

\* Mutant: the dots are put only when characters were cut off.
ToolResultRecordWhenCut(result) ==
    "Tool result: " \o Slice(result, LogLimit) \o (IF Len(result) > LogLimit THEN "..." ELSE "")

\* The message of the log record of main.py:269-271; the formatter puts the
\* time and the file name before it.
ToolResultRecord(result) ==
    "Tool result: " \o Slice(result, LogLimit) \o (IF Len(result) >= LogLimit THEN "..." ELSE "")

\* Mutant: the calls are taken from the last to the first.
CurrentCallFromEnd == function_calls[Len(function_calls) - Len(function_results)]

\* The call the for loop of main.py:267 is at: one result has been appended
\* per call already handled.
CurrentCall == function_calls[Len(function_results) + 1]

\* chat(user_input) up to the first request: the user turn is appended
\* (main.py:194-207).
ChatStart(user_input) ==
    /\ pc = "idle"
    /\ Len(input) < MaxInput
    /\ input' = AppendUser(input, user_input)
    /\ pc' = "request"
    /\ function_calls' = <<>>
    /\ function_results' = <<>>
    /\ ret' = NoReturn
    /\ chat_no' = chat_no + 1
    /\ chat_log' = [ChatLog0 EXCEPT !.start = input, !.user_input = user_input,
                                    !.batch_fs = fs, !.start_fs = fs]
    /\ UNCHANGED <<fs, requests, outcomes, model, tools, sent>>

\* Mutant: the handler goes round the loop again instead of returning.
ServiceFailRetry(err) ==
    /\ pc = "request"
    /\ Len(requests) < MaxInput
    /\ requests' = Append(requests, input)
    /\ outcomes' = Append(outcomes, "failed")
    /\ sent' = Append(sent, Params(model, input, ToolSchemas(tools)))
    /\ chat_log' = [chat_log EXCEPT !.svc_calls = @ + 1,
                                    !.events = Append(@, CreateRaised(err))]
    /\ UNCHANGED <<input, fs, pc, ret, function_calls, function_results, chat_no>>
    /\ UNCHANGED <<model, tools, proc>>

\* client.responses.create raises: the handler returns the error string
\* (main.py:252, 283-285).
ServiceFail(err) ==
    /\ pc = "request"
    /\ requests' = Append(requests, input)
    /\ outcomes' = Append(outcomes, "failed")
    /\ ret' = Caught([msg |-> err], "create")
    /\ pc' = "idle"
    /\ sent' = Append(sent, Params(model, input, ToolSchemas(tools)))
    /\ chat_log' = [chat_log EXCEPT !.svc_calls = @ + 1,
                                    !.events = Append(@, CreateRaised(err))]
    /\ UNCHANGED <<input, fs, function_calls, function_results, chat_no>>
    /\ UNCHANGED <<model, tools, proc>>

\* client.responses.create returns: the output is appended, and chat returns
\* its text or goes on to the tools (main.py:252-266).
ServiceRespond(out) ==
    /\ pc = "request"
    /\ LET output == WithCallIds(out, NumCalls(input))
           calls == SelectSeq(output, IsFunctionCall)
       IN  /\ requests' = Append(requests, input)
           /\ outcomes' = Append(outcomes, "ok")
           /\ input' = ExtendWithOutput(input, output)
           /\ chat_log' = [chat_log EXCEPT !.svc_calls = @ + 1,
                                           !.responses = Append(@, output),
                                           !.events = Append(@, CreateReturned(output)),
                                           !.batch_fs = fs]
           /\ IF calls = <<>>
              THEN /\ ret' = Done(ResponseText(output))
                   /\ pc' = "idle"
                   /\ UNCHANGED <<function_calls, function_results>>
              ELSE /\ pc' = "tools"
                   /\ function_calls' = calls
                   /\ function_results' = <<>>
                   /\ UNCHANGED ret
    /\ sent' = Append(sent, Params(model, input, ToolSchemas(tools)))
    /\ UNCHANGED <<fs, chat_no, model, tools, proc>>

\* Mutant: each result is appended to self.input as soon as it is built.
ExecToolInterleaved ==
    /\ pc = "tools"
    /\ LET call == function_calls[Len(function_results) + 1]
           parsed == JsonLoads(ArgumentsOrEmpty(call.arguments))
       IN  IF parsed.exc # "none"
           THEN /\ ret' = Caught(parsed, "json.loads")
                /\ pc' = "idle"
                /\ UNCHANGED <<input, fs, function_results, chat_log>>
           ELSE LET r == ExecuteTool(fs, call.name, parsed.val)
                    result == FunctionCallOutput(call.call_id, r.result)
                IN  /\ fs' = r.fs
                    /\ function_results' = Append(function_results, result)
                    /\ input' = Append(input, result)
                    /\ chat_log' = [chat_log EXCEPT
                                      !.tool_execs = @ + 1,
                                      !.logged = Append(@, ToolResultRecord(r.result)),
                                      !.executed = Append(@, [call_id |-> call.call_id,
                                                              result |-> r.result])]
                    /\ pc' = IF Len(function_results) + 1 = Len(function_calls)
                             THEN "request" ELSE "tools"
                    /\ UNCHANGED ret
    /\ UNCHANGED <<function_calls, requests, outcomes, chat_no, model, tools, sent, proc>>

\* One iteration of the for loop (main.py:267-278) and, after the last one,
\* the extension of self.input (main.py:280-281).  An exception ends chat in
\* the handler of main.py:283-285.
ExecTool ==
    /\ pc = "tools"
    /\ LET call == CurrentCall
           parsed == JsonLoads(ArgumentsOrEmpty(call.arguments))
       IN  IF parsed.exc # "none"
           THEN /\ ret' = Caught(parsed, "json.loads")
                /\ pc' = "idle"
                /\ UNCHANGED <<input, fs, function_results, chat_log>>
           ELSE LET r == ExecuteTool(fs, call.name, parsed.val)
                IN  /\ fs' = r.fs
                    /\ IF r.exc # "none"
                       THEN /\ ret' = Caught(r, "_execute_tool")
                            /\ pc' = "idle"
                            /\ chat_log' = [chat_log EXCEPT !.tool_execs = @ + 1]
                            /\ UNCHANGED <<input, function_results>>
                       ELSE LET results == Append(function_results,
                                                  FunctionCallOutput(call.call_id, r.result))
                            IN  /\ function_results' = results
                                /\ chat_log' = [chat_log EXCEPT
                                                  !.tool_execs = @ + 1,
                                                  !.logged = Append(@, ToolResultRecord(r.result)),
                                                  !.executed = Append(@, [call_id |-> call.call_id,
                                                                          result |-> r.result])]
                                /\ UNCHANGED ret
                                /\ IF Len(results) = Len(function_calls)
                                   THEN input' = ExtendWithResults(input, results) /\ pc' = "request"
                                   ELSE UNCHANGED input /\ pc' = "tools"
    /\ UNCHANGED <<function_calls, requests, outcomes, chat_no, model, tools, sent, proc>>

\* chat is called on the agent directly, by a caller that is not main().
CallChat(user_input) == ChatStart(user_input) /\ UNCHANGED proc

Next ==
    \/ \E user_input \in UserInputs : CallChat(user_input)
    \/ \E err \in ServiceErrors : ServiceFail(err)
    \/ \E out \in ServiceOutputs(MaxInput - Len(input)) : ServiceRespond(out)
    \/ ExecTool

Spec == Init /\ [][Next]_vars

-----------------------------------------------------------------------------
(* main(): the command line, the construction of the agent and the          *)
(* interactive loop around chat.                                            *)

UpperCase ==
    << "A", "B", "C", "D", "E", "F", "G", "H", "I", "J", "K", "L", "M",
       "N", "O", "P", "Q", "R", "S", "T", "U", "V", "W", "X", "Y", "Z" >>

LowerCase ==
    << "a", "b", "c", "d", "e", "f", "g", "h", "i", "j", "k", "l", "m",
       "n", "o", "p", "q", "r", "s", "t", "u", "v", "w", "x", "y", "z" >>

\* str.lower(), on the letters A to Z.
Lower(cs) ==
    [i \in 1..Len(cs) |->
        IF \E k \in 1..Len(UpperCase) : UpperCase[k] = cs[i]
        THEN LowerCase[CHOOSE k \in 1..Len(UpperCase) : UpperCase[k] = cs[i]]
        ELSE cs[i]]

IsSpace(c) == c \in {" ", "\t", "\n", "\r"}

RECURSIVE LStrip(_)
LStrip(cs) == IF cs # <<>> /\ IsSpace(Head(cs)) THEN LStrip(Tail(cs)) ELSE cs

RECURSIVE RStrip(_)
RStrip(cs) ==
    IF cs # <<>> /\ IsSpace(cs[Len(cs)]) THEN RStrip(SubSeq(cs, 1, Len(cs) - 1)) ELSE cs

\* str.strip()
Strip(cs) == RStrip(LStrip(cs))

\* The values --api-key and OPENAI_API_KEY may have: not given, empty, a key.
KeyValues == {PyNone, PyStr(<<>>), PyStr(<<"s", "k">>)}

\* The values --model is given in the runs considered.
Models == {DefaultModel, "o3", "gpt-4.1"}

\* The lines typed at the prompt.
Lines ==
    { <<"e", "x", "i", "t">>, <<"Q", "U", "I", "T">>, <<" ", "E", "x", "i", "t", " ">>,
      <<>>, <<" ", " ">>, <<"h", "e", "l", "l", "o">>, <<"e", "x", "i", "t", "s">> }

\* The responses of the service in those runs: a text, a text that standard
\* output cannot encode, a tool call, a tool call with malformed arguments.
MainOutputs ==
    { <<Message("ok")>>,
      <<Message(Surrogate)>>,
      <<FunctionCall(0, "read_file", Arguments(ReadArgs))>>,
      <<FunctionCall(0, "foo", Arguments(<<RBrace>>))>> }

\* print(text) succeeds: standard output (UTF-8, strict) can encode text.
StdoutAccepts(text) == text # Surrogate

\* What print(a, end=e) writes.
Printed(text) == text \o "\n"

\* The lines of main.py:312-317.
Banner(model_arg, reasoning) ==
    << Printed("AI Code Assistant"),
       Printed("================"),
       Printed("A conversational AI agent that can read, list, and edit files."),
       Printed("Using model: " \o model_arg \o " ("
                 \o (IF reasoning THEN "Reasoning" ELSE "Non-reasoning") \o ")"),
       Printed("Type 'exit' or 'quit' to end the conversation."),
       Printed("") >>

\* The state before main() runs: nothing has been constructed.
InitMain ==
    /\ \E api_key \in KeyValues, env_key \in KeyValues, model_arg \in Models :
          proc = [Proc0 EXCEPT !.api_key = api_key, !.env_key = env_key, !.model_arg = model_arg]
    /\ input = <<>>
    /\ fs = Fs0
    /\ pc = "idle"
    /\ function_calls = <<>>
    /\ function_results = <<>>
    /\ ret = NoReturn
    /\ requests = <<>>
    /\ outcomes = <<>>
    /\ chat_no = 0
    /\ chat_log = ChatLog0
    /\ model = ""
    /\ tools = <<>>
    /\ sent = <<>>

\* Mutant: the agent is constructed and the loop entered, key or no key.
StartupUnchecked ==
    /\ proc.pc = "start"
    /\ model' = proc.model_arg
    /\ tools' = SetupTools
    /\ input' = <<>>
    /\ proc' = [proc EXCEPT !.pc = "prompt", !.agent = TRUE]
    /\ UNCHANGED <<fs, pc, function_calls, function_results, ret, requests, outcomes,
                   chat_no, chat_log, sent>>

\* main() up to the loop (main.py:288-317): without a key it prints the
\* message and exits with status 1; with one it constructs the agent and
\* prints the banner.
Startup ==
    /\ proc.pc = "start"
    /\ LET api_key == IF Truthy(proc.api_key) THEN proc.api_key ELSE proc.env_key
       IN  IF ~Truthy(api_key)
           THEN /\ proc' = [proc EXCEPT
                              !.pc = "exited",
                              !.status = 1,
                              !.stdout = Append(@, Printed("Error: Please provide an OPENAI API key via --api-key or OPENAI_API_KEY environment variable"))]
                /\ UNCHANGED <<input, model, tools>>
           ELSE /\ model' = proc.model_arg
                /\ tools' = SetupTools
                /\ input' = <<>>
                /\ proc' = [proc EXCEPT
                              !.pc = "prompt",
                              !.agent = TRUE,
                              !.stdout = @ \o Banner(proc.model_arg,
                                                     IsReasoningModel(proc.model_arg))]
    /\ UNCHANGED <<fs, pc, function_calls, function_results, ret, requests, outcomes,
                   chat_no, chat_log, sent>>

\* Mutant: exit and quit are recognised as typed, in lower case only.
IsExitAsTyped(user_input) == user_input \in {<<"e", "x", "i", "t">>, <<"q", "u", "i", "t">>}

\* user_input.lower() in ["exit", "quit"] (main.py:324)
IsExit(user_input) == Lower(user_input) \in {<<"e", "x", "i", "t">>, <<"q", "u", "i", "t">>}

\* input("You: ") returns line, which says exit or quit (main.py:321-327):
\* the loop is left and main returns.
ReadExit(line) ==
    /\ proc.pc = "prompt"
    /\ proc.lines < MaxLines
    /\ IsExit(Strip(line))
    /\ proc' = [proc EXCEPT
                  !.pc = "exited",
                  !.status = 0,
                  !.lines = @ + 1,
                  !.event = "line",
                  !.line = line,
                  !.stdout = @ \o <<"You: ", Printed("Assistant: Goodbye!")>>]
    /\ UNCHANGED <<input, fs, pc, function_calls, function_results, ret, requests, outcomes,
                   chat_no, chat_log, model, tools, sent>>

\* input("You: ") returns a line that is blank (main.py:321-330).
ReadBlank(line) ==
    /\ proc.pc = "prompt"
    /\ proc.lines < MaxLines
    /\ ~IsExit(Strip(line))
    /\ Strip(line) = <<>>
    /\ proc' = [proc EXCEPT
                  !.lines = @ + 1,
                  !.event = "line",
                  !.line = line,
                  !.stdout = Append(@, "You: ")]
    /\ UNCHANGED <<input, fs, pc, function_calls, function_results, ret, requests, outcomes,
                   chat_no, chat_log, model, tools, sent>>

\* input("You: ") returns any other line: agent.chat is called with it,
\* stripped (main.py:321-333).
ReadInput(line) ==
    /\ proc.pc = "prompt"
    /\ proc.lines < MaxLines
    /\ ~IsExit(Strip(line))
    /\ Strip(line) # <<>>
    /\ ChatStart(Str(Strip(line)))
    /\ proc' = [proc EXCEPT
                  !.pc = "chat",
                  !.lines = @ + 1,
                  !.event = "line",
                  !.line = line,
                  !.stdout = @ \o <<"You: ", "\nAssistant: ">>]

\* Mutant: the end of standard input is taken for the end of the session.
InputFailsLeaving ==
    /\ proc.pc = "prompt"
    /\ proc.lines < MaxLines
    /\ proc' = [proc EXCEPT
                  !.pc = "exited",
                  !.status = 0,
                  !.lines = @ + 1,
                  !.event = "eof",
                  !.stdout = @ \o <<"You: ", Printed("\n\nGoodbye!")>>]
    /\ UNCHANGED <<input, fs, pc, function_calls, function_results, ret, requests, outcomes,
                   chat_no, chat_log, model, tools, sent>>

\* Mutant: an exception in the loop body ends the process with status 1.
InputFailsFatally ==
    /\ proc.pc = "prompt"
    /\ proc.lines < MaxLines
    /\ proc' = [proc EXCEPT
                  !.pc = "exited",
                  !.status = 1,
                  !.lines = @ + 1,
                  !.event = "eof",
                  !.stdout = Append(@, "You: ")]
    /\ UNCHANGED <<input, fs, pc, function_calls, function_results, ret, requests, outcomes,
                   chat_no, chat_log, model, tools, sent>>

\* input("You: ") raises EOFError: standard input is at its end.  The handler
\* of main.py:342-345 prints the error and the loop goes round.
InputFails ==
    /\ proc.pc = "prompt"
    /\ proc.lines < MaxLines
    /\ proc' = [proc EXCEPT
                  !.lines = @ + 1,
                  !.event = "eof",
                  !.stdout = @ \o <<"You: ", Printed("\nError: EOF when reading a line"),
                                    Printed("")>>]
    /\ UNCHANGED <<input, fs, pc, function_calls, function_results, ret, requests, outcomes,
                   chat_no, chat_log, model, tools, sent>>

\* agent.chat has returned (main.py:333-335): the response is printed; when
\* standard output cannot encode it, print raises UnicodeEncodeError and the
\* handler of main.py:342-345 prints that instead.
ChatReturns ==
    /\ proc.pc = "chat"
    /\ pc = "idle"
    /\ proc' = [proc EXCEPT
                  !.pc = "prompt",
                  !.event = IF StdoutAccepts(ret.value) THEN "response" ELSE "encode_error",
                  !.stdout = @ \o
                     (IF StdoutAccepts(ret.value)
                      THEN <<Printed(ret.value), Printed("")>>
                      ELSE <<Printed("\nError: 'utf-8' codec can't encode character '\\ud800' in position 0: surrogates not allowed"),
                             Printed("")>>)]
    /\ UNCHANGED <<input, fs, pc, function_calls, function_results, ret, requests, outcomes,
                   chat_no, chat_log, model, tools, sent>>

\* KeyboardInterrupt, at the prompt or anywhere in agent.chat, which does not
\* catch it (main.py:337-340): the loop is left and main returns.
Interrupt ==
    /\ proc.pc \in {"prompt", "chat"}
    /\ proc.pc = "prompt" => proc.lines < MaxLines
    /\ proc' = [proc EXCEPT
                  !.pc = "exited",
                  !.status = 0,
                  !.lines = IF proc.pc = "prompt" THEN @ + 1 ELSE @,
                  !.event = "interrupt",
                  !.stdout = @ \o (IF proc.pc = "prompt" THEN <<"You: ">> ELSE <<>>)
                               \o <<Printed("\n\nGoodbye!")>>]
    /\ UNCHANGED <<input, fs, pc, function_calls, function_results, ret, requests, outcomes,
                   chat_no, chat_log, model, tools, sent>>

\* The steps of agent.chat while main() is in it.
MainServiceFail(err) == proc.pc = "chat" /\ ServiceFail(err)

MainServiceRespond(out) == proc.pc = "chat" /\ ServiceRespond(out)

MainExecTool == proc.pc = "chat" /\ ExecTool

NextMain ==
    \/ Startup
    \/ \E line \in Lines : ReadExit(line)
    \/ \E line \in Lines : ReadBlank(line)
    \/ \E line \in Lines : ReadInput(line)
    \/ InputFails
    \/ ChatReturns
    \/ Interrupt
    \/ \E err \in ServiceErrors : MainServiceFail(err)
    \/ \E out \in {o \in MainOutputs : Len(o) + NumCalls(o) <= MaxInput - Len(input)} :
          MainServiceRespond(out)
    \/ MainExecTool

SpecMain == InitMain /\ [][NextMain]_vars

-----------------------------------------------------------------------------
(* The tool executor on its own: chat is in the for loop with a single call *)
(* drawn from ToolCalls, on a filesystem drawn from Filesystems.            *)

\* A working directory with: b, a file holding "yxy"; d, a directory holding
\* the file a; e, an empty directory; p, a file without read or write
\* permission; q, a read-only file; r, a read-only directory; u, a file that
\* is not UTF-8.
FsRich ==
    (<<>> :> Dir)
    @@ (<<<<"b">>>> :> File(<<"y", "x", "y">>))
    @@ (<<<<"d">>>> :> Dir)
    @@ (<<<<"d">>, <<"a">>>> :> File(<<"x">>))
    @@ (<<<<"e">>>> :> Dir)
    @@ (<<<<"p">>>> :> [File(<<"y">>) EXCEPT !.perm = "none"])
    @@ (<<<<"q">>>> :> [File(<<"y">>) EXCEPT !.perm = "ro"])
    @@ (<<<<"r">>>> :> [Dir EXCEPT !.perm = "ro"])
    @@ (<<<<"u">>>> :> [File(<<"y">>) EXCEPT !.enc = "bad"])

\* The same with the working directory read-only.
FsReadOnly == [FsRich EXCEPT ![<<>>] = [Dir EXCEPT !.perm = "ro"]]

\* The name a.txt.
ATxt == <<"a", ".", "t", "x", "t">>

\* A working directory holding only the file a.txt ("yyy") and the
\* subdirectory b.
FsExample ==
    (<<>> :> Dir)
    @@ (<<ATxt>> :> File(<<"y", "y", "y">>))
    @@ (<<<<"b">>>> :> Dir)

\* A working directory holding the file w, whose lines end in "\r\n".
FsCrLf == (<<>> :> Dir) @@ (<<<<"w">>>> :> File(<<"x", "\r", "\n", "y">>))

Filesystems == {Fs0, FsRich, FsReadOnly, FsExample, FsCrLf}

PathArgs ==
    { <<"a">>, <<"b">>, <<"d">>, <<"e">>, <<"p">>, <<"q">>, <<"u">>, <<".">>, <<>>,
      <<"d", "/", "a">>, <<"c", "/", "d", "/", "a">>, <<"b", "/", "a">>,
      <<"r", "/", "a">>, <<"r", "/", "c", "/", "a">>, <<"w">>, ATxt }

TextArgs ==
    { <<>>, <<"y">>, <<"x", "y">>, <<"t">>, <<Surrogate>>,
      <<"y", "y">>, <<"x", "\n", "y">>, <<"\r">> }

\* The tokens a value of an argument is written as: null or a string literal.
ValueToks(texts) == {Null} \cup {Lit(cs) : cs \in texts}

PathKey == <<"p", "a", "t", "h">>

OldTextKey == <<"o", "l", "d", "_", "t", "e", "x", "t">>

NewTextKey == <<"n", "e", "w", "_", "t", "e", "x", "t">>

\* The arguments strings the calls are drawn from: objects with path alone,
\* with all three keys, with one key missing, and values that are no object.
ArgumentStrings ==
    {<<LBrace>> \o Member(PathKey, pt) \o <<RBrace>> : pt \in ValueToks(PathArgs)}
    \cup {<<LBrace>> \o Member(PathKey, pt) \o <<Comma>> \o Member(OldTextKey, ot) \o <<Comma>>
            \o Member(NewTextKey, nt) \o <<RBrace>> :
            pt \in ValueToks({<<"a">>, <<"b">>, <<"d">>, <<"q">>, <<"u">>, <<"c", "/", "d", "/", "a">>,
                              <<"b", "/", "a">>, <<"r", "/", "c", "/", "a">>, <<"w">>, ATxt}),
            ot \in ValueToks(TextArgs), nt \in ValueToks(TextArgs)}
    \cup {<<LBrace>> \o Member(PathKey, Lit(<<"a">>)) \o <<Comma>> \o Member(NewTextKey, nt)
            \o <<RBrace>> : nt \in ValueToks(TextArgs)}
    \cup {<<LBrace>> \o Member(NewTextKey, Lit(<<"x">>)) \o <<RBrace>>,
          <<LBrace, RBrace>>, <<LBracket, RBracket>>, <<Null>>, <<Lit(<<"a">>)>>}

ToolCalls ==
    {FunctionCall(1, name, Arguments(toks)) :
        name \in ToolNames \cup {"foo"}, toks \in ArgumentStrings}
    \cup {FunctionCall(1, name, NoArguments) : name \in ToolNames \cup {"foo"}}

\* chat("hello") has received a response holding the one call and is about to
\* execute it.
InitTools ==
    \E call \in ToolCalls, f \in Filesystems :
        /\ input = <<User("hello"), call>>
        /\ fs = f
        /\ pc = "tools"
        /\ function_calls = <<call>>
        /\ function_results = <<>>
        /\ ret = NoReturn
        /\ requests = <<<<User("hello")>>>>
        /\ outcomes = <<"ok">>
        /\ chat_no = 1
        /\ chat_log = [ChatLog0 EXCEPT !.user_input = "hello", !.responses = <<<<call>>>>,
                                       !.svc_calls = 1, !.batch_fs = f]
        /\ model = DefaultModel
        /\ tools = SetupTools
        /\ sent = <<Params(DefaultModel, <<User("hello")>>, ToolSchemas(SetupTools))>>
        /\ proc = NoProc

NextTools == ExecTool

SpecTools == InitTools /\ [][NextTools]_vars

-----------------------------------------------------------------------------
(* Results of 500 characters and about: read_file on a long file, followed  *)
(* by a second call in the same batch.                                      *)

\* The lengths of the file w.
FileLens == {3} \cup {n \in 1..MaxFileLen : n >= MaxFileLen - 19}

\* The working directory with the file w of n characters.
FsLong(n) == (<<>> :> Dir) @@ (<<<<"w">>>> :> File([i \in 1..n |-> "x"]))

\* {"path": "w"}
ReadW == <<LBrace>> \o Member(PathKey, Lit(<<"w">>)) \o <<RBrace>>

\* read_file on w, followed by read_file on w again, list_files or a tool
\* that does not exist.
ReadThenAny ==
    { <<FunctionCall(1, "read_file", Arguments(ReadW)), second>> :
        second \in { FunctionCall(2, "read_file", Arguments(ReadW)),
                     FunctionCall(2, "list_files", Arguments(<<LBrace>> \o Member(PathKey, Null) \o <<RBrace>>)),
                     FunctionCall(2, "foo", NoArguments) } }

\* chat("hello") has received a response holding the two calls and is about
\* to execute them.
InitLog ==
    \E calls \in ReadThenAny, n \in FileLens :
        /\ input = <<User("hello")>> \o calls
        /\ fs = FsLong(n)
        /\ pc = "tools"
        /\ function_calls = calls
        /\ function_results = <<>>
        /\ ret = NoReturn
        /\ requests = <<<<User("hello")>>>>
        /\ outcomes = <<"ok">>
        /\ chat_no = 1
        /\ chat_log = [ChatLog0 EXCEPT !.user_input = "hello", !.responses = <<calls>>,
                                       !.events = <<CreateReturned(calls)>>,
                                       !.svc_calls = 1, !.batch_fs = FsLong(n),
                                       !.start_fs = FsLong(n)]
        /\ model = DefaultModel
        /\ tools = SetupTools
        /\ sent = <<Params(DefaultModel, <<User("hello")>>, ToolSchemas(SetupTools))>>
        /\ proc = NoProc

NextLog == ExecTool

SpecLog == InitLog /\ [][NextLog]_vars

-----------------------------------------------------------------------------
(* Two tool calls in one batch on the same path: an edit_file call followed *)
(* by a read_file call, or a list_files call made twice.                    *)

EditThenRead ==
    { << FunctionCall(1, "edit_file",
                      Arguments(<<LBrace>> \o Member(PathKey, Lit(cs)) \o <<Comma>>
                                  \o Member(OldTextKey, ot) \o <<Comma>>
                                  \o Member(NewTextKey, nt) \o <<RBrace>>)),
         FunctionCall(2, "read_file",
                      Arguments(<<LBrace>> \o Member(PathKey, Lit(cs)) \o <<RBrace>>)) >> :
        cs \in PathArgs, ot \in ValueToks(TextArgs), nt \in ValueToks(TextArgs) }

ListTwice ==
    { << FunctionCall(1, "list_files", Arguments(<<LBrace>> \o Member(PathKey, pt) \o <<RBrace>>)),
         FunctionCall(2, "list_files", Arguments(<<LBrace>> \o Member(PathKey, pt) \o <<RBrace>>)) >> :
        pt \in ValueToks(PathArgs) }

\* chat("hello") has received a response holding the two calls and is about
\* to execute the first.
InitPairs ==
    \E calls \in EditThenRead \cup ListTwice, f \in Filesystems :
        /\ input = <<User("hello")>> \o calls
        /\ fs = f
        /\ pc = "tools"
        /\ function_calls = calls
        /\ function_results = <<>>
        /\ ret = NoReturn
        /\ requests = <<<<User("hello")>>>>
        /\ outcomes = <<"ok">>
        /\ chat_no = 1
        /\ chat_log = [ChatLog0 EXCEPT !.user_input = "hello", !.responses = <<calls>>,
                                       !.svc_calls = 1, !.batch_fs = f]
        /\ model = DefaultModel
        /\ tools = SetupTools
        /\ sent = <<Params(DefaultModel, <<User("hello")>>, ToolSchemas(SetupTools))>>
        /\ proc = NoProc

NextPairs == ExecTool

SpecPairs == InitPairs /\ [][NextPairs]_vars

-----------------------------------------------------------------------------
(* Properties *)

IsPrefix(a, b) == Len(a) <= Len(b) /\ SubSeq(b, 1, Len(a)) = a

\* chat is not running: before the first call, or after a return.
Returned == pc = "idle" /\ chat_no > 0

\* The function_call_output items after position i that carry call_id.
OutputsAfter(seq, i, call_id) ==
    {j \in (i + 1)..Len(seq) : IsOutput(seq[j]) /\ seq[j].call_id = call_id}

\* Every function_call item of seq has exactly one output after it.
AllPaired(seq) ==
    \A i \in 1..Len(seq) :
        IsFunctionCall(seq[i]) => Cardinality(OutputsAfter(seq, i, seq[i].call_id)) = 1

\* C1: in every request sent to the model service, in any chat call, every
\* function_call item has exactly one function_call_output item with the same
\* call_id after it.
C1_EveryCallPairedInEveryRequest == \A n \in 1..Len(requests) : AllPaired(requests[n])

\* The arguments string is absent, empty or not valid JSON.
BadArguments(arguments) ==
    ~arguments.present \/ arguments.toks = <<>> \/ JsonLoads(arguments.toks).exc # "none"

\* C2: a tool call whose arguments are absent, empty or not valid JSON is
\* executed with an empty argument set and its result is recorded under its
\* call_id; chat does not return because of the arguments.
C2_BadArgumentsBecomeEmptySet ==
    [][(pc = "tools" /\ BadArguments(CurrentCall.arguments)) =>
          /\ pc' # "idle"
          /\ ret' = ret
          /\ chat_log'.tool_execs = chat_log.tool_execs + 1
          /\ function_results' =
               Append(function_results,
                      FunctionCallOutput(CurrentCall.call_id,
                                         ExecuteTool(fs, CurrentCall.name, PyDict(<<>>)).result))]_vars

\* C3: chat returns only with the text of a response that holds no tool call,
\* or because the service call itself failed; nothing that happens while the
\* tools are executed makes it return.
C3_ReturnsOnlyDoneOrServiceFailure ==
    Returned =>
        \/ /\ ret.via = "done"
           /\ NumCalls(chat_log.responses[Len(chat_log.responses)]) = 0
        \/ /\ ret.via = "except"
           /\ outcomes[Len(outcomes)] = "failed"

\* C4: _execute_tool never raises, and the string it returns for a call is in
\* the conversation, as that call's tool result, when the next request is
\* sent (and when chat returns).
C4_ToolResultsAlwaysFedBack ==
    /\ ret.raised_at # "_execute_tool"
    /\ pc \in {"idle", "request"} =>
          \A k \in 1..Len(chat_log.executed) :
              \E j \in 1..Len(input) :
                  input[j] = FunctionCallOutput(chat_log.executed[k].call_id,
                                                chat_log.executed[k].result)

\* C5: the conversation only grows, by appending: every step leaves the old
\* conversation a prefix of the new one, and the conversation sent on each
\* request is a prefix of the one sent on the next.
C5_AppendOnly ==
    [][/\ IsPrefix(input, input')
       /\ \A n \in 2..Len(requests') : IsPrefix(requests'[n - 1], requests'[n])]_vars

\* C5's case: a second request was sent with a longer conversation than the
\* first, and the conversation has grown since.
C5_Witness ==
    /\ Len(requests) >= 2
    /\ Len(requests[2]) > Len(requests[1])
    /\ Len(input) > Len(requests[2])

\* C6: on a fresh agent, when the first response holds one tool call and the
\* second none, chat makes two service calls and one tool execution, and the
\* conversation is: user turn, first response's items, the tool result for
\* that call, second response's items.
C6_OneCallThenText ==
    (/\ Returned
     /\ chat_log.start = <<>>
     /\ Len(chat_log.responses) = 2
     /\ NumCalls(chat_log.responses[1]) = 1
     /\ NumCalls(chat_log.responses[2]) = 0) =>
        LET call == SelectSeq(chat_log.responses[1], IsFunctionCall)[1]
        IN  /\ chat_log.svc_calls = 2
            /\ chat_log.tool_execs = 1
            /\ Len(requests) = 2
            /\ Len(chat_log.executed) = 1
            /\ input = <<User(chat_log.user_input)>> \o chat_log.responses[1]
                         \o <<FunctionCallOutput(call.call_id, chat_log.executed[1].result)>>
                         \o chat_log.responses[2]

\* C6's case: such a chat call has returned, both responses holding a message.
C6_Witness ==
    /\ Returned
    /\ chat_log.start = <<>>
    /\ Len(chat_log.responses) = 2
    /\ NumCalls(chat_log.responses[1]) = 1
    /\ Len(chat_log.responses[1]) = 2
    /\ chat_log.responses[2] = <<Message("ok")>>
    /\ ret.via = "done"

\* C7: when the first response of a chat call holds no tool call, chat
\* returns its text ("" when it has none) after one service call and no tool
\* execution, the conversation being the one at the call, the user turn and
\* the response's items.
C7_TextOnFirstResponse ==
    (/\ Returned
     /\ Len(chat_log.responses) >= 1
     /\ NumCalls(chat_log.responses[1]) = 0) =>
        LET first == chat_log.responses[1]
        IN  /\ ret.via = "done"
            /\ first = <<>> => ret.value = ""
            /\ Len(first) = 1 => ret.value = first[1].text
            /\ Len(first) = 2 => ret.value = first[1].text \o first[2].text
            /\ chat_log.svc_calls = 1
            /\ chat_log.tool_execs = 0
            /\ chat_log.executed = <<>>
            /\ input = chat_log.start \o <<User(chat_log.user_input)>> \o first

\* C7's case: a later chat call returned the text of its first response.
C7_Witness ==
    /\ Returned
    /\ chat_no = 2
    /\ chat_log.responses = <<<<Message("ok")>>>>
    /\ ret.value = "ok"

\* C8: after a failed service call chat has returned an error string, the
\* conversation is the one that request carried, and the next request made on
\* the agent is another chat call's: the same conversation and a new user
\* turn.
C8_ServiceFailureKeepsState ==
    /\ (Returned /\ outcomes # <<>> /\ outcomes[Len(outcomes)] = "failed") =>
          /\ ret.via = "except"
          /\ \E err \in ServiceErrors : ret.value = "Error: " \o err
          /\ input = requests[Len(requests)]
    /\ \A n \in 1..(Len(requests) - 1) :
          outcomes[n] = "failed" =>
              \E user_input \in UserInputs :
                  requests[n + 1] = Append(requests[n], User(user_input))
    /\ (outcomes # <<>> /\ outcomes[Len(outcomes)] = "failed") => pc # "tools"

\* C8's case: a request failed after a tool batch, and a later chat call sent
\* a request.
C8_Witness ==
    \E n \in 1..(Len(requests) - 1) :
        /\ outcomes[n] = "failed"
        /\ \E i \in 1..Len(requests[n]) : IsOutput(requests[n][i])

\* C9: a tool call that names none of read_file, list_files, edit_file
\* yields, whatever its arguments, the tool result "Unknown tool: <name>"
\* under its call_id; the filesystem is unchanged and chat does not return.
C9_UnknownToolAnswered ==
    [][(pc = "tools" /\ CurrentCall.name \notin ToolNames) =>
          /\ function_results' =
               Append(function_results,
                      FunctionCallOutput(CurrentCall.call_id,
                                         "Unknown tool: " \o CurrentCall.name))
          /\ fs' = fs
          /\ pc' # "idle"]_vars

\* _execute_tool returns a str for every call and filesystem it is given (it
\* never raises), and after a batch of one call that result is in the
\* conversation under the call's id, with the next request due.
ExecuteToolAlwaysReturns ==
    pc # "tools" =>
        /\ ret = NoReturn
        /\ pc = "request"
        /\ Len(input) = 3
        /\ IsOutput(input[3])
        /\ input[3].call_id = input[2].call_id
        /\ input[3].output \in STRING

RECURSIVE RunInOrder(_, _, _)
\* The first n calls executed one after the other from filesystem f, each on
\* the filesystem the one before left: the results in that order and the
\* filesystem at the end.
RunInOrder(f, calls, n) ==
    IF n = 0 THEN [fs |-> f, results |-> <<>>]
    ELSE LET before == RunInOrder(f, calls, n - 1)
             call == calls[n]
             parsed == JsonLoads(ArgumentsOrEmpty(call.arguments))
         IN  IF parsed.exc # "none"
             THEN [fs |-> before.fs, results |-> Append(before.results, parsed)]
             ELSE LET r == ExecuteTool(before.fs, call.name, parsed.val)
                  IN  [fs |-> r.fs,
                       results |-> Append(before.results,
                                          FunctionCallOutput(call.call_id, r.result))]

\* C10: the tool calls of one response are executed in the order of the
\* response, each on the filesystem its predecessor left, and their results
\* are appended to the conversation in that order.
C10_ToolsRunInOrder ==
    /\ pc = "tools" =>
          LET ref == RunInOrder(chat_log.batch_fs, function_calls, Len(function_results))
          IN  fs = ref.fs /\ function_results = ref.results
    /\ (pc = "request" /\ chat_log.responses # <<>>) =>
          LET calls == SelectSeq(chat_log.responses[Len(chat_log.responses)], IsFunctionCall)
              ref == RunInOrder(chat_log.batch_fs, calls, Len(calls))
          IN  /\ fs = ref.fs
              /\ SubSeq(input, Len(input) - Len(calls) + 1, Len(input)) = ref.results

\* C10's case: a response asked to create a and then to read it; the read
\* ran second and saw the file; both results are in the conversation.
C10_Witness ==
    /\ pc = "request"
    /\ Len(input) >= 4
    /\ IsFunctionCall(input[Len(input) - 3]) /\ input[Len(input) - 3].name = "edit_file"
    /\ IsFunctionCall(input[Len(input) - 2]) /\ input[Len(input) - 2].name = "read_file"
    /\ input[Len(input) - 1].output = "Successfully created a"
    /\ input[Len(input)].output = "File contents of a:\nx"

\* The output items of the response chat received last.
LastResponse == chat_log.responses[Len(chat_log.responses)]

\* C11: while the calls of a batch are being executed the conversation ends
\* with the response's output items and holds none of the batch's results; no
\* request is sent from there; the step that executes the last call appends
\* all the results, in one piece, directly after those items, and only that
\* step leads to the next request.
C11_ResultsAppendedTogether ==
    /\ [](pc = "tools" =>
            /\ Len(function_results) < Len(function_calls)
            /\ input = requests[Len(requests)] \o LastResponse)
    /\ [][pc = "tools" =>
            /\ requests' = requests
            /\ \/ input' = input /\ pc' # "request"
               \/ /\ pc' = "request"
                  /\ Len(function_results') = Len(function_calls)
                  /\ \A k \in 1..Len(function_calls) :
                        /\ IsOutput(function_results'[k])
                        /\ function_results'[k].call_id = function_calls[k].call_id
                  /\ input' = input \o function_results']_vars
    /\ [][requests' # requests => pc = "request"]_vars

\* C11's case: a batch of two calls or more has been executed and the next
\* request is due, the results standing together after the response's items.
C11_Witness ==
    /\ pc = "request"
    /\ Len(function_calls) >= 2
    /\ Len(function_results) = Len(function_calls)
    /\ input = requests[Len(requests)] \o LastResponse \o function_results

-----------------------------------------------------------------------------
(* The tools, one call at a time.  The claims below are about the step that *)
(* executes the current call: its arguments as json.loads delivers them,    *)
(* the tool result it records and the filesystem it leaves.                 *)

\* The argument set of the current call.
Args == JsonLoads(ArgumentsOrEmpty(CurrentCall.arguments))

\* The loop is at a call of the tool, with an argument set.
IsCallOf(tool_name) ==
    pc = "tools" /\ CurrentCall.name = tool_name /\ Args.exc = "none" /\ Args.val.py = "dict"

ArgGiven(key) == key \in DOMAIN Args.val.m

ArgIsStr(key) == ArgGiven(key) /\ Args.val.m[key].py = "str"

\* The characters of a str argument.
Arg(key) == Args.val.m[key].s

\* This step records out as the tool result of the current call.
Answered(out) ==
    function_results' = Append(function_results, FunctionCallOutput(CurrentCall.call_id, out))

\* The names path cs leads through.
KeyOf(cs) == Components(cs)

\* A regular file is at cs.
FileAt(f, cs) == KeyOf(cs) # <<>> /\ KeyOf(cs) \in DOMAIN f /\ f[KeyOf(cs)].kind = "file"

\* Nothing is at cs.
Absent(f, cs) == KeyOf(cs) # <<>> /\ KeyOf(cs) \notin DOMAIN f

\* Every directory on the way to cs that exists is one the process may
\* search and create entries in.
WayOpen(f, cs) ==
    \A i \in 0..(Len(KeyOf(cs)) - 1) :
        LET p == SubSeq(KeyOf(cs), 1, i)
        IN  p \in DOMAIN f => f[p].kind = "dir" /\ f[p].perm = "rw"

\* The operating system lets the process create or overwrite the file cs.
CanCreate(f, cs) ==
    /\ WayOpen(f, cs)
    /\ Absent(f, cs) \/ (FileAt(f, cs) /\ f[KeyOf(cs)].perm = "rw")

\* cs is a UTF-8 text file the process may read and write.
TextFile(f, cs) ==
    /\ FileAt(f, cs)
    /\ WayOpen(f, cs)
    /\ f[KeyOf(cs)].perm = "rw"
    /\ f[KeyOf(cs)].enc = "utf8"

\* An edit_file call as the tool's declaration allows it: path and new_text
\* are strings, new_text one that UTF-8 can encode.
IsEditCall ==
    /\ IsCallOf("edit_file")
    /\ ArgIsStr("path")
    /\ ArgIsStr("new_text")
    /\ Encodable(Arg("new_text"))

\* old_text is given and is a non-empty string.
OldTextGiven == ArgIsStr("old_text") /\ Arg("old_text") # <<>>

\* f2 is f with the file cs holding text, and with the directories on the way
\* to cs that were missing; everything else is as in f.
CreatedIn(f, f2, cs, text) ==
    /\ KeyOf(cs) \in DOMAIN f2 /\ f2[KeyOf(cs)] = File(text)
    /\ \A k \in DOMAIN f \ {KeyOf(cs)} : k \in DOMAIN f2 /\ f2[k] = f[k]
    /\ \A k \in DOMAIN f2 \ DOMAIN f :
          \/ k = KeyOf(cs)
          \/ Len(k) < Len(KeyOf(cs)) /\ k = SubSeq(KeyOf(cs), 1, Len(k)) /\ f2[k] = Dir

\* C12: edit_file replaces (it answers "Successfully edited" or "Text not
\* found", never "Successfully created") exactly when a file is at the path
\* and old_text is a non-empty string; when nothing is at the path, or
\* old_text is empty, null or not given, it creates: whenever the operating
\* system permits the write, the file then holds exactly new_text (an
\* existing file is overwritten, missing directories are made, nothing else
\* changes) and the result is "Successfully created <path>".
C12_EditFileModes ==
    [][IsEditCall =>
          LET cs == Arg("path")
              created == "Successfully created " \o Str(cs)
              edited == "Successfully edited " \o Str(cs)
          IN  /\ (FileAt(fs, cs) /\ OldTextGiven) =>
                    /\ ~Answered(created)
                    /\ TextFile(fs, cs) =>
                          \/ Answered(edited)
                          \/ Answered("Text not found in file: " \o Str(Arg("old_text")))
              /\ ((FileAt(fs, cs) \/ Absent(fs, cs)) /\ ~(FileAt(fs, cs) /\ OldTextGiven)) =>
                    /\ ~Answered(edited)
                    /\ CanCreate(fs, cs) =>
                          /\ Answered(created)
                          /\ CreatedIn(fs, fs', cs, Arg("new_text"))]_vars

\* C12's case: edit_file was called on the existing file b ("yxy") with an
\* old_text that is empty, null or not given; b now holds new_text alone.
C12_Witness ==
    /\ pc = "request"
    /\ chat_log.batch_fs = FsRich
    /\ input[2].name = "edit_file"
    /\ input[3].output = "Successfully created b"
    /\ fs[<<<<"b">>>>] = File(<<"t">>)

\* old occurs in cs (old is not empty).
Occurs(cs, old) ==
    \E i \in 1..(Len(cs) - Len(old) + 1) : SubSeq(cs, i, i + Len(old) - 1) = old

RECURSIVE Taken(_, _, _)
\* An occurrence of old starts at position i of cs and is one of those a scan
\* from the left takes: it does not overlap an occurrence taken before it.
Taken(cs, old, i) ==
    /\ i + Len(old) - 1 <= Len(cs)
    /\ SubSeq(cs, i, i + Len(old) - 1) = old
    /\ \A j \in 1..(i - 1) : j > i - Len(old) => ~Taken(cs, old, j)

RECURSIVE ReplacedFrom(_, _, _, _)
\* cs from position i on with every taken occurrence of old given as new: a
\* position inside a taken occurrence contributes nothing, any other
\* position its character.
ReplacedFrom(cs, old, new, i) ==
    IF i > Len(cs) THEN <<>>
    ELSE (IF Taken(cs, old, i) THEN new
          ELSE IF \E j \in 1..(i - 1) : j > i - Len(old) /\ Taken(cs, old, j) THEN <<>>
          ELSE <<cs[i]>>) \o ReplacedFrom(cs, old, new, i + 1)

\* Only the content of the file at key differs between f and f2, and in f2
\* it is text.
OnlyContentChanged(f, f2, key, text) ==
    /\ DOMAIN f2 = DOMAIN f
    /\ f2[key] = [f[key] EXCEPT !.content = text]
    /\ \A k \in DOMAIN f \ {key} : f2[k] = f[k]

\* C13: in replace mode on a text file that holds old_text, the file
\* afterwards holds its old content with every occurrence of old_text (taken
\* from the left, not overlapping) replaced by new_text, nothing else in the
\* filesystem changes, and the result is "Successfully edited <path>".
C13_ReplaceEveryOccurrence ==
    [][(/\ IsEditCall
        /\ TextFile(fs, Arg("path"))
        /\ OldTextGiven
        /\ Occurs(fs[KeyOf(Arg("path"))].content, Arg("old_text"))) =>
          LET cs == Arg("path")
              content == fs[KeyOf(cs)].content
          IN  /\ Answered("Successfully edited " \o Str(cs))
              /\ OnlyContentChanged(fs, fs', KeyOf(cs),
                                    ReplacedFrom(content, Arg("old_text"), Arg("new_text"), 1))]_vars

\* The same for a file that holds no carriage return: there the replacement
\* is exactly the one claimed.
ReplaceExactWithoutCarriageReturn ==
    [][(/\ IsEditCall
        /\ TextFile(fs, Arg("path"))
        /\ OldTextGiven
        /\ \A i \in 1..Len(fs[KeyOf(Arg("path"))].content) :
              fs[KeyOf(Arg("path"))].content[i] # "\r"
        /\ Occurs(fs[KeyOf(Arg("path"))].content, Arg("old_text"))) =>
          LET cs == Arg("path")
              content == fs[KeyOf(cs)].content
          IN  /\ Answered("Successfully edited " \o Str(cs))
              /\ OnlyContentChanged(fs, fs', KeyOf(cs),
                                    ReplacedFrom(content, Arg("old_text"), Arg("new_text"), 1))]_vars

\* The overlapping case of the above: a.txt held "yyy", old_text is "yy" and
\* new_text "t"; the file holds "ty".
ReplaceOverlapReached ==
    /\ pc = "request"
    /\ chat_log.batch_fs = FsExample
    /\ input[3].output = "Successfully edited a.txt"
    /\ fs[<<ATxt>>].content = <<"t", "y">>

\* cs is a UTF-8 text file the process may read.
ReadableText(f, cs) ==
    /\ FileAt(f, cs)
    /\ WayOpen(f, cs)
    /\ f[KeyOf(cs)].perm # "none"
    /\ f[KeyOf(cs)].enc = "utf8"

\* An edit_file call on an existing file, with a non-empty old_text that the
\* file does not hold.
EditTextMissing ==
    /\ IsCallOf("edit_file")
    /\ ArgIsStr("path")
    /\ ArgGiven("new_text")
    /\ FileAt(fs, Arg("path"))
    /\ OldTextGiven
    /\ ~Occurs(fs[KeyOf(Arg("path"))].content, Arg("old_text"))

\* C14: edit_file on an existing file with a non-empty old_text that the
\* file does not hold leaves the whole filesystem as it was, and (the file
\* being readable text) answers "Text not found in file: <old_text>".
C14_TextNotFoundChangesNothing ==
    [][EditTextMissing =>
          /\ fs' = fs
          /\ ReadableText(fs, Arg("path")) =>
                Answered("Text not found in file: " \o Str(Arg("old_text")))]_vars

\* The same for a file that holds no carriage return.
TextNotFoundWithoutCarriageReturn ==
    [][(/\ EditTextMissing
        /\ \A i \in 1..Len(fs[KeyOf(Arg("path"))].content) :
              fs[KeyOf(Arg("path"))].content[i] # "\r") =>
          /\ fs' = fs
          /\ ReadableText(fs, Arg("path")) =>
                Answered("Text not found in file: " \o Str(Arg("old_text")))]_vars

\* The case of the above: b holds "yxy", old_text is "t".
TextNotFoundReached ==
    /\ pc = "request"
    /\ chat_log.batch_fs = FsRich
    /\ input[3].output = "Text not found in file: t"
    /\ fs = FsRich

-----------------------------------------------------------------------------
(* Two calls on the same path *)

\* The argument set of the k-th call of the batch.
ArgsOf(k) == JsonLoads(ArgumentsOrEmpty(function_calls[k].arguments)).val.m

\* Both calls of an edit_file / read_file batch have been executed, and the
\* edit created the file.
CreatedThenRead ==
    /\ Len(function_calls) = 2
    /\ Len(function_results) = 2
    /\ function_calls[1].name = "edit_file"
    /\ function_calls[2].name = "read_file"
    /\ function_results[1].output = "Successfully created " \o Str(ArgsOf(1)["path"].s)

\* C15: after edit_file has created a file with content C, read_file on the
\* same path gives back exactly C (after the heading "File contents of
\* <path>:" and a newline, which every result of read_file starts with).
C15_CreateThenReadRoundTrip ==
    CreatedThenRead =>
        function_results[2].output =
            "File contents of " \o Str(ArgsOf(1)["path"].s) \o ":\n" \o Str(ArgsOf(1)["new_text"].s)

\* The same for a content C that holds no carriage return.
RoundTripWithoutCarriageReturn ==
    (/\ CreatedThenRead
     /\ \A i \in 1..Len(ArgsOf(1)["new_text"].s) : ArgsOf(1)["new_text"].s[i] # "\r") =>
        function_results[2].output =
            "File contents of " \o Str(ArgsOf(1)["path"].s) \o ":\n" \o Str(ArgsOf(1)["new_text"].s)

\* The case of the above: c/d/a was created, its directories with it,
\* holding "x\ny", and read back.
RoundTripReached ==
    /\ CreatedThenRead
    /\ ArgsOf(1)["path"].s = <<"c", "/", "d", "/", "a">>
    /\ function_results[2].output = "File contents of c/d/a:\nx\ny"

-----------------------------------------------------------------------------
(* list_files and read_file, one call at a time *)

\* The loop is at list_files(".") in the working directory of the example.
ListDotInExample ==
    /\ IsCallOf("list_files")
    /\ ArgIsStr("path")
    /\ Arg("path") = <<".">>
    /\ fs = FsExample

\* C16, as the specification states it: in a directory holding only the file
\* a.txt and the subdirectory b, list_files(".") returns the line of b before
\* the line of a.txt.
C16_ExampleDirectoryFirst ==
    [][ListDotInExample => Answered("Contents of .:\n[DIR]  b/\n[FILE] a.txt")]_vars

\* C16, amended: in that directory list_files(".") returns the entries in the
\* order of their names, whatever their kind: the line of a.txt, then the
\* line of b.
C16_ExampleInNameOrder ==
    [][ListDotInExample =>
          /\ Answered("Contents of .:\n[FILE] a.txt\n[DIR]  b/")
          /\ fs' = fs]_vars

\* C16's case: list_files(".") has been answered in the example's directory.
C16_Witness ==
    /\ pc = "request"
    /\ chat_log.batch_fs = FsExample
    /\ input[2].name = "list_files"
    /\ input[3].output = "Contents of .:\n[FILE] a.txt\n[DIR]  b/"

\* cs is a directory the process may list.
ListableDir(f, cs) ==
    /\ cs # <<>>
    /\ KeyOf(cs) \in DOMAIN f
    /\ f[KeyOf(cs)].kind = "dir"
    /\ f[KeyOf(cs)].perm # "none"
    /\ WayOpen(f, cs)

\* The names of the immediate children of the directory at key.
ChildNames(f, key) ==
    {k[Len(k)] : k \in {k2 \in DOMAIN f : Len(k2) = Len(key) + 1 /\ SubSeq(k2, 1, Len(key)) = key}}

\* The name that has exactly i - 1 of the names before it.
NameAt(names, i) == CHOOSE n \in names : Cardinality({m \in names : StrLess(m, n)}) = i - 1

\* The line the claim gives the child called name.
TaggedLine(f, key, name) ==
    IF f[Append(key, name)].kind = "dir" THEN "[DIR]  " \o Str(name) \o "/"
    ELSE "[FILE] " \o Str(name)

RECURSIVE LinesFrom(_, _, _)
\* A newline and the line of the i-th name, for every i from i on.
LinesFrom(f, key, i) ==
    IF i > Cardinality(ChildNames(f, key)) THEN ""
    ELSE "\n" \o TaggedLine(f, key, NameAt(ChildNames(f, key), i)) \o LinesFrom(f, key, i + 1)

\* The loop is at list_files on a directory that can be listed and has
\* children.
ListsDirectory ==
    /\ IsCallOf("list_files")
    /\ ArgIsStr("path")
    /\ ListableDir(fs, Arg("path"))
    /\ ChildNames(fs, KeyOf(Arg("path"))) # {}

\* C17: for an existing directory list_files returns, after the heading,
\* exactly one line per immediate child, the children in the order of their
\* names whatever their kind, a directory as "[DIR]  <name>/" and anything
\* else as "[FILE] <name>"; the filesystem is unchanged.
C17_ListingSortedAndTagged ==
    [][ListsDirectory =>
          /\ Answered("Contents of " \o Str(Arg("path")) \o ":"
                        \o LinesFrom(fs, KeyOf(Arg("path")), 1))
          /\ fs' = fs]_vars

\* C17's case: a directory of seven children, files and directories mixed,
\* has been listed.
C17_Witness ==
    /\ pc = "request"
    /\ chat_log.batch_fs = FsRich
    /\ input[2].name = "list_files"
    /\ input[3].output =
         "Contents of .:\n[FILE] b\n[DIR]  d/\n[DIR]  e/\n[FILE] p\n[FILE] q\n[DIR]  r/\n[FILE] u"

\* What list_files answers for the working directory.
CurrentDirectoryListing(f) ==
    IF ChildNames(f, <<>>) = {} THEN "Empty directory: ."
    ELSE "Contents of .:" \o LinesFrom(f, <<>>, 1)

\* The three cases of C18 for a list_files call: no usable path, a path at
\* which nothing is, an empty directory.
ListFilesCases ==
    /\ (~ArgIsStr("path") \/ Arg("path") = <<>>) =>
          (ListableDir(fs, <<".">>) => Answered(CurrentDirectoryListing(fs)))
    /\ (ArgIsStr("path") /\ Absent(fs, Arg("path"))) =>
          Answered("Path not found: " \o Str(Arg("path")))
    /\ (/\ ArgIsStr("path")
        /\ ListableDir(fs, Arg("path"))
        /\ ChildNames(fs, KeyOf(Arg("path"))) = {}) =>
          Answered("Empty directory: " \o Str(Arg("path")))

\* C18: a list_files call whose path is not in the argument set, is null or
\* is the empty string lists the current directory; a path at which nothing
\* is yields "Path not found: <path>"; a directory without children yields
\* "Empty directory: <path>".
C18_ListFilesDefaultsAndMessages ==
    [][IsCallOf("list_files") => ListFilesCases]_vars

\* The same for the calls whose argument set holds a path (null included).
ListFilesCasesWhenPathGiven ==
    [][(IsCallOf("list_files") /\ ArgGiven("path")) => ListFilesCases]_vars

\* The cases of the above: a null path has listed the current directory.
ListFilesNullPathReached ==
    /\ pc = "request"
    /\ chat_log.batch_fs = FsExample
    /\ input[2].name = "list_files"
    /\ input[2].arguments = Arguments(<<LBrace>> \o Member(PathKey, Null) \o <<RBrace>>)
    /\ input[3].output = "Contents of .:\n[FILE] a.txt\n[DIR]  b/"

\* Nothing is at cs: no such name, or no path at all.
NotThere(f, cs) == cs = <<>> \/ Absent(f, cs)

\* A name on the way to cs is a regular file.
FileOnTheWay(f, cs) ==
    \E i \in 1..(Len(KeyOf(cs)) - 1) :
        LET p == SubSeq(KeyOf(cs), 1, i)
        IN  p \in DOMAIN f /\ f[p].kind = "file"

\* The loop is at read_file with a path at which nothing is.
ReadsMissing ==
    /\ IsCallOf("read_file")
    /\ ArgIsStr("path")
    /\ NotThere(fs, Arg("path"))

\* C20, as the specification states it: read_file on a path that does not
\* exist answers "File not found: <path>" and leaves the filesystem as it
\* was.
C20_MissingFileNotFound ==
    [][ReadsMissing =>
          /\ Answered("File not found: " \o Str(Arg("path")))
          /\ fs' = fs]_vars

\* C20, amended: read_file on a path that does not exist records a result
\* (it does not raise) and leaves the filesystem as it was; the result is
\* "File not found: <path>" unless a name on the way to the path is a
\* regular file, and then it is "Error reading file: [Errno 20] Not a
\* directory: '<path>'".
C20_MissingFileReported ==
    [][ReadsMissing =>
          /\ fs' = fs
          /\ pc' # "idle"
          /\ IF FileOnTheWay(fs, Arg("path"))
             THEN Answered("Error reading file: [Errno 20] Not a directory: '"
                             \o Str(Arg("path")) \o "'")
             ELSE Answered("File not found: " \o Str(Arg("path")))]_vars

\* C20's case: read_file was called on c/d/a, none of which exists; nothing
\* has been created.
C20_Witness ==
    /\ pc = "request"
    /\ chat_log.batch_fs = FsRich
    /\ input[2].name = "read_file"
    /\ input[3].output = "File not found: c/d/a"
    /\ fs = FsRich

-----------------------------------------------------------------------------
(* list_files called twice *)

\* Both calls of a batch of two list_files calls have been executed.
ListedTwice ==
    /\ Len(function_calls) = 2
    /\ Len(function_results) = 2
    /\ function_calls[1].name = "list_files"
    /\ function_calls[2].name = "list_files"
    /\ function_calls[1].arguments = function_calls[2].arguments

-----------------------------------------------------------------------------
(* The requests, the interactive loop and the frame of chat                 *)

\* The names of params that request number n carries.
Carried(n) == DOMAIN sent[n]

\* The model identifier is one of the names of the reasoning allow-list.
InAllowList(m) == \E i \in DOMAIN reasoning_models : reasoning_models[i] = m

DefaultModelRequestReached ==
    /\ model = DefaultModel
    /\ Len(sent) = 2
    /\ "temperature" \in Carried(2)

\* The last thing written to standard output.
LastWritten(p) == p.stdout[Len(p.stdout)]

\* cs spells word, each letter in either case.
SpellsInAnyCase(cs, word) ==
    /\ Len(cs) = Len(word)
    /\ \A i \in 1..Len(word) :
         \/ cs[i] = word[i]
         \/ \E k \in 1..Len(LowerCase) : word[i] = LowerCase[k] /\ cs[i] = UpperCase[k]

\* The line says exit or quit, in any letter case, with blanks around it or not.
SaysExitOrQuit(line) ==
    \/ SpellsInAnyCase(Strip(line), <<"e", "x", "i", "t">>)
    \/ SpellsInAnyCase(Strip(line), <<"q", "u", "i", "t">>)

\* This step is input() returning a line.
LineRead == proc'.lines = proc.lines + 1 /\ proc'.event = "line"

\* This step is the interrupt signal arriving.
Interrupted == proc.event # "interrupt" /\ proc'.event = "interrupt"

\* The loop has been left with a goodbye message and status 0, and no request
\* was made on the way.
LeftWithGoodbye ==
    /\ proc'.pc = "exited"
    /\ proc'.status = 0
    /\ Len(proc'.stdout) > Len(proc.stdout)
    /\ LastWritten(proc') \in {"Assistant: Goodbye!\n", "\n\nGoodbye!\n"}
    /\ sent' = sent
    /\ input' = input

\* C22: a line that says exit or quit in any letter case, and an interrupt,
\* end the loop with a goodbye message and without a request, and nothing
\* happens after that; a blank line makes no request, leaves the conversation
\* as it was and the loop is at the prompt again.
C22_ExitQuitInterruptBlank ==
    [][ /\ (LineRead /\ SaysExitOrQuit(proc'.line)) => LeftWithGoodbye
        /\ Interrupted => LeftWithGoodbye
        /\ (LineRead /\ Strip(proc'.line) = <<>>) =>
              /\ sent' = sent
              /\ input' = input
              /\ pc' = pc
              /\ proc'.pc = "prompt"
        /\ proc.pc = "exited" => UNCHANGED vars ]_vars

\* C22 witness: after one chat the user types QUIT and the loop has ended.
C22_Witness ==
    /\ proc.pc = "exited"
    /\ proc.event = "line"
    /\ proc.line = <<"Q", "U", "I", "T">>
    /\ chat_no = 1
    /\ Len(sent) >= 1

\* A blank line has been read between two chats.
BlankLineReached ==
    /\ proc.pc = "prompt"
    /\ proc.event = "line"
    /\ proc.line = <<" ", " ">>
    /\ chat_no = 1

\* The interrupt has arrived while chat was executing tools.
InterruptInChatReached ==
    /\ proc.pc = "exited"
    /\ proc.event = "interrupt"
    /\ pc = "tools"

\* This step is input() raising EOFError.
InputRaised == proc'.lines = proc.lines + 1 /\ proc'.event = "eof"

\* This step is print(response) raising UnicodeEncodeError: chat has returned
\* a text that standard output cannot encode, and no interrupt arrives.
PrintRaised ==
    /\ proc.pc = "chat"
    /\ pc = "idle"
    /\ ret.value = Surrogate
    /\ proc' # proc
    /\ ~Interrupted

\* The exception was printed, the process goes on at the prompt and the
\* agent is as it was.
CaughtAndPrinted(message) ==
    /\ proc'.pc = "prompt"
    /\ proc'.status = -1
    /\ Len(proc'.stdout) >= Len(proc.stdout) + 2
    /\ proc'.stdout[Len(proc'.stdout) - 1] = "\nError: " \o message \o "\n"
    /\ input' = input
    /\ fs' = fs
    /\ model' = model
    /\ tools' = tools
    /\ sent' = sent

\* C23: an exception other than the interrupt that is raised while one line
\* is handled (input() at the end of its input, print unable to encode the
\* response) is caught and printed, the loop is at the prompt again, the
\* process has not exited and the conversation is kept.
C23_LoopSurvivesExceptions ==
    [][ /\ InputRaised => CaughtAndPrinted("EOF when reading a line")
        /\ PrintRaised =>
              CaughtAndPrinted("'utf-8' codec can't encode character '\\ud800' in position 0: surrogates not allowed")
      ]_vars

\* C23 witness: chat returned, input() raised, and the next chat has run on
\* the conversation of the first.
C23_Witness ==
    /\ proc.pc = "prompt"
    /\ proc.lines = 3
    /\ chat_no = 2
    /\ Len(input) >= 4
    /\ \E i \in 1..Len(proc.stdout) : proc.stdout[i] = "\nError: EOF when reading a line\n"

\* The response could not be printed and the loop has gone on to a next chat.
PrintErrorSurvivedReached ==
    /\ proc.pc = "chat"
    /\ chat_no = 2
    /\ \E i \in 1..Len(proc.stdout) :
         proc.stdout[i] = "\nError: 'utf-8' codec can't encode character '\\ud800' in position 0: surrogates not allowed\n"

\* No credential: the value is absent or empty.
NoCredential(v) == v = PyNone \/ v = PyStr(<<>>)

\* C24: with no credential on the command line and none in the environment
\* the process never constructs an agent, never reads a line and never makes
\* a request; the one thing it does is to print the message and exit with a
\* status other than 0.
C24_NoKeyExitsBeforeAnything ==
    (NoCredential(proc.api_key) /\ NoCredential(proc.env_key)) =>
        /\ ~proc.agent
        /\ model = ""
        /\ tools = <<>>
        /\ proc.lines = 0
        /\ sent = <<>>
        /\ requests = <<>>
        /\ input = <<>>
        /\ chat_no = 0
        /\ \/ proc.pc = "start" /\ proc.stdout = <<>>
           \/ /\ proc.pc = "exited"
              /\ proc.status # 0
              /\ proc.stdout =
                   <<"Error: Please provide an OPENAI API key via --api-key or OPENAI_API_KEY environment variable\n">>

\* C24 witness: neither --api-key nor OPENAI_API_KEY is given and the process
\* has exited with status 1.
C24_Witness ==
    /\ proc.api_key = PyNone
    /\ proc.env_key = PyNone
    /\ proc.pc = "exited"
    /\ proc.status = 1

\* The key of the environment is used when --api-key is empty.
EnvironmentKeyReached ==
    /\ proc.api_key = PyStr(<<>>)
    /\ proc.env_key = PyStr(<<"s", "k">>)
    /\ proc.agent
    /\ Len(sent) = 1

\* The names declared by a sequence of tools or of tool schemas.
DeclaredNames(ts) == {ts[i].name : i \in 1..Len(ts)}

\* The schema sent for a tool says what the tool says.
Declares(schema, tool) ==
    /\ DOMAIN schema = {"type", "name", "description", "parameters", "strict"}
    /\ schema.type = tool.type
    /\ schema.name = tool.name
    /\ schema.description = tool.description
    /\ schema.parameters = tool.parameters
    /\ schema.strict = tool.strict

\* C25: from the construction of the agent on the tools are read_file,
\* list_files and edit_file and no other, every request carries a declaration
\* of each of them, and no step after the construction changes them.
C25_ToolsBuiltOnceAndAlwaysSent ==
    /\ [](IF proc.agent
          THEN /\ Len(tools) = 3
               /\ DeclaredNames(tools) = {"read_file", "list_files", "edit_file"}
               /\ \A n \in 1..Len(sent) :
                    /\ Len(sent[n].tools) = Len(tools)
                    /\ \A i \in 1..Len(tools) : Declares(sent[n].tools[i], tools[i])
          ELSE tools = <<>> /\ sent = <<>>)
    /\ [][tools' # tools => (~proc.agent /\ proc'.agent)]_vars

\* C25 witness: the third request of one chat, after two batches of tool
\* calls have been executed.
C25_Witness ==
    /\ proc.agent
    /\ proc.pc = "chat"
    /\ Len(sent) = 3
    /\ chat_no = 1
    /\ Len(chat_log.executed) >= 2

\* This step is a request to the service that failed, or that was answered
\* without a tool call.
AnsweredWithoutCallOrFailed ==
    /\ pc = "request"
    /\ Len(outcomes') = Len(outcomes) + 1
    /\ \/ outcomes'[Len(outcomes')] = "failed"
       \/ NumCalls(chat_log'.responses[Len(chat_log'.responses)]) = 0

\* This step is a request answered with at least one tool call.
AnsweredWithCall ==
    /\ pc = "request"
    /\ Len(outcomes') = Len(outcomes) + 1
    /\ outcomes'[Len(outcomes')] = "ok"
    /\ NumCalls(chat_log'.responses[Len(chat_log'.responses)]) > 0

\* C26: chat returns on the step the service fails or answers without a tool
\* call; an answer with a tool call never makes it return: the batch is
\* executed, whatever number of batches went before, and once the batch is
\* through the next request is due.
C26_ReturnsOnlyWithoutToolCall ==
    [][ /\ AnsweredWithoutCallOrFailed => (pc' = "idle" /\ ret'.via # "none")
        /\ AnsweredWithCall => (pc' = "tools" /\ ret' = ret)
        /\ pc = "tools" => (pc' \in {"tools", "request"} /\ ret' = ret) ]_vars

\* The same for batches whose calls all carry arguments that json.loads
\* accepts: it holds.
ToolCallsKeepChatRunningWhenArgumentsParse ==
    [][ /\ AnsweredWithoutCallOrFailed => (pc' = "idle" /\ ret'.via # "none")
        /\ AnsweredWithCall => (pc' = "tools" /\ ret' = ret)
        /\ (pc = "tools" /\ JsonLoads(ArgumentsOrEmpty(CurrentCall.arguments)).exc = "none") =>
              (pc' \in {"tools", "request"} /\ ret' = ret) ]_vars

\* One chat has made two requests, each answered with a tool call, both
\* batches are through and the third request is due.
TwoBatchesInOneChatReached ==
    /\ chat_no = 1
    /\ chat_log.svc_calls = 2
    /\ pc = "request"
    /\ \A n \in 1..2 : NumCalls(chat_log.responses[n]) > 0

\* The response the service gave last in this chat call.
LatestResponse(log) == log.responses[Len(log.responses)]

\* The items this step has put at the end of the conversation.
Appended == {j \in 1..Len(input') : j > Len(input)}

\* C27: every function_call_output in the conversation carries the call_id of
\* a function_call that stands before it; a function_call enters the
\* conversation only as an item of the response the service has just given;
\* and a function_call_output enters it only with the call_id of a
\* function_call of the latest response.
C27_ResultsAnswerCallsOfTheModel ==
    /\ [](\A j \in 1..Len(input) :
            IsOutput(input[j]) =>
                \E i \in 1..(j - 1) :
                    IsFunctionCall(input[i]) /\ input[i].call_id = input[j].call_id)
    /\ [][\A j \in Appended :
            /\ IsFunctionCall(input'[j]) =>
                  /\ pc = "request"
                  /\ Len(chat_log'.responses) = Len(chat_log.responses) + 1
                  /\ \E k \in 1..Len(LatestResponse(chat_log')) :
                        LatestResponse(chat_log')[k] = input'[j]
            /\ IsOutput(input'[j]) =>
                  /\ pc = "tools"
                  /\ \E k \in 1..Len(LatestResponse(chat_log)) :
                        /\ IsFunctionCall(LatestResponse(chat_log)[k])
                        /\ LatestResponse(chat_log)[k].call_id = input'[j].call_id]_vars

\* C27 witness: a batch of two calls has been answered in the second chat of
\* a conversation.
C27_Witness ==
    /\ chat_no = 2
    /\ pc = "request"
    /\ Len(input) >= 2
    /\ IsOutput(input[Len(input)])
    /\ IsOutput(input[Len(input) - 1])

\* chat as a function of what it is given: the for loop of main.py:267-278
\* over the calls, from the filesystem f, with the results built so far.
RECURSIVE RunBatch(_, _, _)
RunBatch(calls, f, results) ==
    IF calls = <<>> THEN [fs |-> f, results |-> results, ret |-> NoReturn]
    ELSE LET call == Head(calls)
             parsed == JsonLoads(ArgumentsOrEmpty(call.arguments))
         IN  IF parsed.exc # "none"
             THEN [fs |-> f, results |-> results, ret |-> Caught(parsed, "json.loads")]
             ELSE LET r == ExecuteTool(f, call.name, parsed.val)
                  IN  RunBatch(Tail(calls), r.fs,
                               Append(results, FunctionCallOutput(call.call_id, r.result)))

\* The while loop of main.py:209-285 from the conversation inp and the
\* filesystem f, the service doing what events says, call by call.  When
\* events is used up and chat has not returned, ret is NoReturn.
RECURSIVE RunLoop(_, _, _)
RunLoop(inp, f, events) ==
    IF events = <<>> THEN [input |-> inp, fs |-> f, ret |-> NoReturn]
    ELSE LET e == Head(events)
         IN  IF e.kind = "raise"
             THEN [input |-> inp, fs |-> f, ret |-> Caught([msg |-> e.msg], "create")]
             ELSE LET extended == inp \o e.output
                      calls == SelectSeq(e.output, IsFunctionCall)
                      batch == RunBatch(calls, f, <<>>)
                  IN  IF calls = <<>>
                      THEN [input |-> extended, fs |-> f, ret |-> Done(OutputText(e.output))]
                      ELSE IF batch.ret # NoReturn
                      THEN [input |-> extended, fs |-> batch.fs, ret |-> batch.ret]
                      ELSE RunLoop(extended \o batch.results, batch.fs, Tail(events))

\* chat(user_input) on the conversation start and the filesystem f.
RunChat(start, f, user_input, events) ==
    RunLoop(Append(start, User(user_input)), f, events)

ResultsRecorded == SelectSeq(SubSeq(input, Len(chat_log.start) + 1, Len(input)), IsOutput)

\* C29: when chat has returned, the tool_result of every tool it executed in
\* this call is in the conversation, one for each execution and in the order
\* of execution; and the filesystem differs from the one the call started
\* with only if a tool_result was recorded.
C29_NoEffectWithoutRecordedResult ==
    (pc = "idle" /\ chat_no > 0) =>
        /\ Len(ResultsRecorded) = chat_log.tool_execs
        /\ \A k \in 1..Len(chat_log.executed) :
             /\ k <= Len(ResultsRecorded)
             /\ ResultsRecorded[k].call_id = chat_log.executed[k].call_id
             /\ ResultsRecorded[k].output = chat_log.executed[k].result
        /\ fs # chat_log.start_fs => ResultsRecorded # <<>>

\* The same for chat calls in which json.loads accepted the arguments of
\* every tool call: it holds.
ResultsRecordedWhenArgumentsParse ==
    (pc = "idle" /\ chat_no > 0 /\ ret.raised_at # "json.loads") =>
        /\ Len(ResultsRecorded) = chat_log.tool_execs
        /\ \A k \in 1..Len(chat_log.executed) :
             /\ k <= Len(ResultsRecorded)
             /\ ResultsRecorded[k].call_id = chat_log.executed[k].call_id
             /\ ResultsRecorded[k].output = chat_log.executed[k].result
        /\ fs # chat_log.start_fs => ResultsRecorded # <<>>

\* chat has returned after a batch that created a file, with every result
\* recorded.
EffectRecordedReached ==
    /\ pc = "idle"
    /\ chat_no > 0
    /\ ret.via = "done"
    /\ fs # chat_log.start_fs
    /\ Len(ResultsRecorded) = 2

\* chat has returned the error of json.loads after a tool of the same batch
\* had changed the filesystem, and no tool_result of the batch is recorded.
EffectWithoutResultReached ==
    /\ pc = "idle"
    /\ ret.raised_at = "json.loads"
    /\ fs # chat_log.start_fs
    /\ chat_log.tool_execs = 1
    /\ ResultsRecorded = <<>>

\* Between f and f2 nothing differs but, at most, the content of the file at
\* cs (its characters, and whether its bytes are UTF-8), the presence of that
\* file, and the presence of directories on the way to it that f did not have.
WithinFrameOf(f, f2, cs) ==
    /\ \A k \in DOMAIN f :
         /\ k \in DOMAIN f2
         /\ IF k = KeyOf(cs) /\ f[k].kind = "file"
            THEN f2[k] = [f[k] EXCEPT !.content = f2[k].content, !.enc = f2[k].enc]
            ELSE f2[k] = f[k]
    /\ \A k \in DOMAIN f2 \ DOMAIN f :
         \/ k = KeyOf(cs) /\ f2[k].kind = "file"
         \/ Len(k) < Len(KeyOf(cs)) /\ k = SubSeq(KeyOf(cs), 1, Len(k)) /\ f2[k] = Dir

\* This step has recorded a tool result for the current call.
ResultBuilt == Len(function_results') = Len(function_results) + 1

\* The result this step has recorded.
ResultOut == function_results'[Len(function_results')].output

\* The edit_file call is in replace mode: something is at the path and
\* old_text is a non-empty string.
InReplaceMode ==
    /\ IsCallOf("edit_file")
    /\ ArgIsStr("path")
    /\ Stat(fs, Arg("path")) = "none"
    /\ OldTextGiven

\* C30: a call of read_file, of list_files or of a tool that does not exist
\* leaves the filesystem as it was, whatever its arguments; a call of
\* edit_file changes nothing outside the frame of its path (the content of
\* the file there, that file, the missing directories on the way to it); and
\* in replace mode it changes nothing unless it answers "Successfully edited".
C30_ToolFrame ==
    [][pc = "tools" =>
          /\ CurrentCall.name # "edit_file" => fs' = fs
          /\ CurrentCall.name = "edit_file" =>
                \/ fs' = fs
                \/ IsCallOf("edit_file") /\ ArgIsStr("path")
                     /\ WithinFrameOf(fs, fs', Arg("path"))
          /\ (InReplaceMode /\ ResultBuilt
                /\ ResultOut # "Successfully edited " \o Str(Arg("path"))) => fs' = fs]_vars

\* The same for edit_file calls whose new_text, when it is a string, is one
\* that UTF-8 can encode: it holds.
ToolFrameWhenNewTextEncodable ==
    [][pc = "tools" =>
          /\ CurrentCall.name # "edit_file" => fs' = fs
          /\ CurrentCall.name = "edit_file" =>
                \/ fs' = fs
                \/ IsCallOf("edit_file") /\ ArgIsStr("path")
                     /\ WithinFrameOf(fs, fs', Arg("path"))
          /\ (InReplaceMode /\ ResultBuilt
                /\ (ArgIsStr("new_text") => Encodable(Arg("new_text")))
                /\ ResultOut # "Successfully edited " \o Str(Arg("path"))) => fs' = fs]_vars

\* edit_file in replace mode has answered with an error and the file it was
\* to edit, b with the content "yxy", is empty.
FileEmptiedOnErrorReached ==
    /\ pc = "request"
    /\ chat_log.batch_fs = FsRich
    /\ fs # FsRich
    /\ fs[<<<<"b">>>>].content = <<>>
    /\ input[3].output =
         "Error editing file: 'utf-8' codec can't encode character '\\ud800' in position 0: surrogates not allowed"

\* edit_file has created a file and the two directories that were missing on
\* the way to it.
DirectoriesCreatedReached ==
    /\ pc = "request"
    /\ \E k \in DOMAIN fs \ DOMAIN chat_log.batch_fs : fs[k] = Dir
    /\ \E k \in DOMAIN fs \ DOMAIN chat_log.batch_fs : fs[k].kind = "file"

-----------------------------------------------------------------------------
(* Turn counting, growth between requests, end of input, the log            *)

\* The decimal numerals of the numbers of chat calls that occur.
Numeral == <<"1", "2", "3", "4", "5", "6", "7", "8", "9">>

\* The user turns of a conversation.
UserTurns(inp) == SelectSeq(inp, IsUser)

\* This step is a call of chat.
ChatCalled == chat_no' = chat_no + 1

\* This step is a request to the service.
RequestMade == Len(sent') = Len(sent) + 1

\* C31: the step that calls chat appends one user turn, holding the argument,
\* and makes no request; no other step changes the user turns, whether chat
\* returns a text or an error string; so the conversation holds one user turn
\* per chat call made, and every request carries that number as its
\* conversation_turn.
C31_OneUserTurnPerChatCall ==
    /\ [](Len(UserTurns(input)) = chat_no)
    /\ [][/\ ChatCalled =>
               /\ input' = Append(input, User(chat_log'.user_input))
               /\ sent' = sent
          /\ ~ChatCalled => UserTurns(input') = UserTurns(input)
          /\ RequestMade =>
               /\ chat_no \in 1..Len(Numeral)
               /\ sent'[Len(sent')].metadata.conversation_turn = Numeral[chat_no]]_vars

\* C31 witness: the first chat returned the error string of a failed request,
\* a tool call was received since, and the third chat has made its request,
\* as turn 3.
C31_Witness ==
    /\ chat_no = 3
    /\ Len(sent) = 3
    /\ outcomes[1] = "failed"
    /\ sent[3].metadata.conversation_turn = "3"
    /\ \E j \in 1..Len(input) : IsFunctionCall(input[j])

\* The conversation sent on request number k of the current chat call.
RequestOfChat(k) == requests[Len(requests) - chat_log.svc_calls + k]

\* What the conversation has grown by between request k of the current chat
\* call and the next one.
GrownBy(k) ==
    SubSeq(RequestOfChat(k + 1), Len(RequestOfChat(k)) + 1, Len(RequestOfChat(k + 1)))

\* C32: between two consecutive requests of one chat call the conversation
\* keeps what it held and grows by the output items of the response to the
\* first of them, followed by one function_call_output for each function_call
\* of that response, in their order and under their call_ids, and by nothing
\* else; that is two items or more, with as many tool results as tool calls.
C32_GrowthBetweenRequests ==
    (chat_no > 0 /\ chat_log.svc_calls <= Len(requests)) =>
        \A k \in 1..(chat_log.svc_calls - 1) :
            LET response == chat_log.responses[k]
                calls == SelectSeq(response, IsFunctionCall)
                grown == GrownBy(k)
                results == SubSeq(grown, Len(response) + 1, Len(grown))
            IN  /\ IsPrefix(RequestOfChat(k), RequestOfChat(k + 1))
                /\ Len(grown) = Len(response) + Len(calls)
                /\ SubSeq(grown, 1, Len(response)) = response
                /\ \A i \in 1..Len(calls) :
                      IsOutput(results[i]) /\ results[i].call_id = calls[i].call_id
                /\ Len(grown) >= 2
                /\ Len(SelectSeq(grown, IsOutput)) = Len(calls)

\* C32 witness: the second request of a chat call has been made after a
\* response of a message and two tool calls, the conversation having grown by
\* five items.
C32_Witness ==
    /\ chat_log.svc_calls = 2
    /\ Len(requests) >= 2
    /\ Len(chat_log.responses[1]) = 3
    /\ NumCalls(chat_log.responses[1]) = 2
    /\ Len(GrownBy(1)) = 5

\* What the handler of the loop prints when input() is at the end of its input.
IsEofReport(text) == text = "\nError: EOF when reading a line\n"

\* This step leaves the read loop.
LoopLeft == proc.pc \in {"prompt", "chat"} /\ proc'.pc = "exited"

\* C33: the read loop is left only by the step that reads an exit or quit
\* line and by the interrupt; input() finding standard input at its end is
\* reported and the loop is at the prompt again, the process running, however
\* often that has happened before.
C33_LoopLeftOnlyByExitOrInterrupt ==
    [][/\ LoopLeft => ((LineRead /\ SaysExitOrQuit(proc'.line)) \/ Interrupted)
       /\ InputRaised =>
            /\ proc'.pc = "prompt"
            /\ proc'.status = -1
            /\ Len(SelectSeq(proc'.stdout, IsEofReport))
                 = Len(SelectSeq(proc.stdout, IsEofReport)) + 1]_vars

\* C33 witness: input() has found the end of input three times in a row and
\* the loop is at the prompt, the process running.
C33_Witness ==
    /\ proc.pc = "prompt"
    /\ proc.status = -1
    /\ proc.event = "eof"
    /\ chat_no = 0
    /\ Len(SelectSeq(proc.stdout, IsEofReport)) = 3

\* The result the executor returned on this step, as the history has it.
ExecutorResult == chat_log'.executed[Len(chat_log'.executed)].result

\* The log record this step has written.
RecordWritten == chat_log'.logged[Len(chat_log'.logged)]

\* C34: the tool result recorded for a call is the executor's whole result
\* string, and so is the one in the conversation once the batch is through,
\* however long it is; the log record holds the result as it is when it has
\* fewer than 500 characters, and its first 500 characters followed by "..."
\* when it has 500 or more.
C34_FullResultTruncatedLog ==
    [][(pc = "tools" /\ ResultBuilt) =>
          /\ Len(chat_log'.executed) = Len(chat_log.executed) + 1
          /\ Len(chat_log'.logged) = Len(chat_log.logged) + 1
          /\ ResultOut = ExecutorResult
          /\ (CurrentCall.name = "read_file" /\ Len(function_results) = 0) =>
                Len(ResultOut) = Len("File contents of w:\n") + Len(fs[<<<<"w">>>>].content)
          /\ pc' = "request" =>
                \A k \in 1..Len(function_results') :
                    input'[Len(input) + k].output = chat_log'.executed[k].result
          /\ IF Len(ExecutorResult) >= 500
             THEN /\ RecordWritten = "Tool result: " \o SubSeq(ExecutorResult, 1, 500) \o "..."
                  /\ Len(RecordWritten) = Len("Tool result: ") + 503
             ELSE RecordWritten = "Tool result: " \o ExecutorResult]_vars

\* C34 witness: read_file has returned a result of exactly 500 characters;
\* the conversation holds all 500, the log record the 500 and "...".
C34_Witness ==
    /\ pc = "request"
    /\ Len(chat_log.executed[1].result) = 500
    /\ Len(input[4].output) = 500
    /\ chat_log.logged[1] = "Tool result: " \o input[4].output \o "..."

\* A result of 509 characters is in the conversation in full and in the log
\* without its last 9 characters.
LongResultReached ==
    /\ pc = "request"
    /\ Len(input[4].output) = 509
    /\ Len(chat_log.logged[1]) = Len("Tool result: ") + 503

\* A result of 499 characters is logged as it is.
ShortResultReached ==
    /\ pc = "request"
    /\ Len(input[4].output) = 499
    /\ chat_log.logged[1] = "Tool result: " \o input[4].output

====
